---- MODULE Spec2Model ----
(***************************************************************************)
(* golubsmtpd: the message queue (internal/queue/queue.go), the spool      *)
(* lifecycle of a message body and the per-message processor.             *)
(*                                                                         *)
(* One message per DATA transaction.  A message goes through               *)
(*   StreamEmailContent (temp file, rename into incoming/)                 *)
(*   -> Queue.PublishMessage (gate check, deposit, back-off retry)         *)
(*   -> the consumer loop of Queue.StartConsumer (receive, semaphore)      *)
(*   -> Queue.processMessage (incoming->processing, class deliveries,      *)
(*      processing->delivered|failed)                                      *)
(* while Queue.Stop runs its shutdown phases concurrently.                 *)
(***************************************************************************)
EXTENDS Integers, Sequences, FiniteSets, TLC

(* ---------------- bounds of the model ---------------- *)

\* number of DATA transactions (messages) in a run
NumMsgs == 2

Msgs == 1..NumMsgs

(* ---------------- configuration (config.Queue) ---------------- *)

\* config.Queue.BufferSize: capacity of the messageQueue channel
BufferSize == 1

\* config.Queue.MaxConsumers: capacity of the sem channel
MaxConsumers == 1

\* config.Queue.RetryDelay, in ticks
RetryDelay == 1

\* config.Queue.MaxRetryDelay, in ticks
MaxRetryDelay == 2

\* config.Queue.PublishTimeout, in ticks
PublishTimeout == 3

(* ---------------- recipients of a message ---------------- *)

LocalUsers == {"l1", "l2"}

VirtualUsers == {"v1"}

RelayUsers == {"r1"}

\* the recipient classes a Message carries (ExternalRecipients is never
\* filled by an accepted RCPT TO)
Classes == {"local", "virtual", "relay"}

NoRcpt == [local |-> {}, virtual |-> {}, relay |-> {}]

\* Message.LocalRecipients / VirtualRecipients / RelayRecipients of a message
\* that passed DATA: at least one recipient in total
MessageRecipients ==
    { r \in [local : SUBSET LocalUsers, virtual : SUBSET VirtualUsers,
             relay : SUBSET RelayUsers] :
        Cardinality(r.local) + Cardinality(r.virtual) + Cardinality(r.relay) > 0 }

\* MessageState: the four spool directories
MessageStates == {"incoming", "processing", "delivered", "failed"}

VARIABLES
    pc,               \* per message: position of its session in DATA / PublishMessage
    pubRes,           \* per message: what PublishMessage returned
    gateAtBegin,      \* per message: was publisherCtx done when PublishMessage began
    retryDelay,       \* per message: local retryDelay of PublishMessage
    elapsed,          \* per message: time.Since(startTime), saturating at PublishTimeout
    sleepLeft,        \* per message: ticks left of time.Sleep(retryDelay)
    messageQueue,     \* Queue.messageQueue: the buffered channel
    chanClosed,       \* close(q.messageQueue) has happened
    publisherCtxDone, \* q.publisherCtx is cancelled
    ctxDone,          \* the root context given to NewQueue / StartConsumer is cancelled
    stopCtxDone,      \* the context given to Stop is done
    callCtxDone,      \* per message: the ctx argument of its PublishMessage call is done
    sem,              \* number of tokens in q.sem
    consumerPc,       \* the consumer loop: "off", "recv", "acquire", "done", "cancelled"
    consumerMsg,      \* the message the consumer loop holds, 0 if none
    handled,          \* per message: how many processors were spawned for it
    procPc,           \* per message: position of its processMessage goroutine
    rcpt,             \* per message: recipients read by processMessage
    dispatched,       \* per message: classes for which a coordinator goroutine was started
    resultChan,       \* per message: the DeliveryResults sent to resultChan
    spool,            \* directory -> set of messages whose body file is there
    tmpFiles,         \* messages whose incoming/<id>.tmp exists
    stopPc,           \* position of Stop
    publisherDone,    \* Stop's publisherDone channel is closed
    processorsDone,   \* Stop's done channel is closed
    panicked,         \* a goroutine panicked: the process is gone
    \* --- one SMTP session (Session, its handlers and strategies) ---
    connType,         \* "tcp" or "socket": which strategies the session was built with
    state,            \* Session.state
    authenticated,    \* Session.authenticated
    currentMessage,   \* Session.currentMessage, NoMessage for nil
    response,         \* the status code of the last reply written
    command,          \* the last command line read by the session loop
    nextID,           \* the next identifier GenerateID hands out
    publishResult,    \* what the last PublishMessage call of the session returned
    clientHelloHostname, \* Session.clientHelloHostname, "" until HELO/EHLO succeeds
    \* --- one StreamEmailContent call at the level of bytes ---
    input,            \* the bytes the reader will deliver
    maxMessageSize,   \* cfg.Server.MaxMessageSize of the call
    ingestPc,         \* position of the call
    readPos,          \* how many bytes of input reader.Read has delivered
    tail,             \* streamSMTPData: tail
    totalWritten,     \* streamSMTPData: totalWritten
    tempFile,         \* content of incoming/<id>.tmp, NoFile when absent
    finalFile,        \* content of incoming/<id>, NoFile when absent
    synced,           \* file.Sync() has returned nil
    closed,           \* file.Close() has been called
    retSize,          \* the count StreamEmailContent returned
    retErr,           \* the error StreamEmailContent returned, "nil" for none
    \* --- one DeliverWithWorkers call with its worker goroutines ---
    classRecipients,  \* the recipients map of the call
    configuredMax,    \* the class's configured max_workers
    maxWorkers,       \* DeliverWithWorkers: maxWorkers, the capacity of sem
    coordPc,          \* position of the coordinator: "start", "launch", "collect", "returned"
    pending,          \* recipients the launch loop has not reached yet
    workerSem,        \* number of tokens in DeliverWithWorkers' sem
    worker,           \* per recipient: position of its goroutine
    deliverErr,       \* per recipient: what deliverFunc returned, "none" before
    calls,            \* per recipient: how often deliverFunc was invoked
    outcomeChan,      \* DeliverWithWorkers' resultChan of DeliveryOutcome
    result,           \* the DeliveryResult being built: Successful and Failed
    \* --- one LRUCache ---
    capacity,         \* LRUCache.capacity
    ttl,              \* LRUCache.ttl
    items,            \* LRUCache.items: key -> [value, timestamp]
    lruList,          \* LRUCache.lruList, front first
    hits,             \* LRUCache.hits
    misses,           \* LRUCache.misses
    now,              \* time.Now()
    lastOp,           \* the last cache operation and what it returned
    lastPut,          \* per key: time of the last Put, NoTime if none
    lastUse,          \* per key: number of the last operation that used it
    opCount,          \* number of Get and Put operations so far
    \* --- the retry loop of one PublishMessage call, with its configuration ---
    cfgRetryDelay,    \* config.Queue.RetryDelay, in units of 100 ms
    cfgMaxRetryDelay, \* config.Queue.MaxRetryDelay
    cfgPublishTimeout,\* config.Queue.PublishTimeout
    backoffPc,        \* position of the call: "start", "loop", "select", or how it returned
    delay,            \* PublishMessage: retryDelay
    maxDelay,         \* PublishMessage: maxDelay
    totalTimeout,     \* PublishMessage: totalTimeout
    sinceStart,       \* time.Since(startTime)
    waits,            \* the durations handed to time.Sleep, in order
    \* --- the TCP server's connection tracking ---
    totalConnections, \* Server.totalConnections
    ipConnections,    \* Server.ipConnections: IP -> counter, NoCounter when the key is absent
    counter,          \* the int64 counters the map entries point to
    acceptPc,         \* position of acceptLoop
    acceptIP,         \* acceptLoop: clientIP
    acceptVal,        \* the counter the accept loop loaded from the map
    conn,             \* per connection slot: its handler's position, clientIP and loaded counter
    \* --- one RcptValidator with its two caches and its lookups ---
    systemCache,      \* RcptValidator.systemCache: items and lruList
    virtualCache,     \* RcptValidator.virtualCache
    rvCapacity,       \* the capacity of both caches
    rvTTL,            \* the ttl of both caches
    clock,            \* time.Now()
    rvPc,             \* "idle", or "lookup" while the collaborator is asked
    rvType,           \* domainType of the check in progress or just finished
    rvKey,            \* its cache key (the username, or the address)
    rvChecks,         \* number of IsRecipientValid calls that returned
    rvAnswer,         \* what the last call returned
    lastCheck,        \* per class and key: the last check that returned
    evictedSince,     \* per class and key: evictLRU removed the key since that check
    \* --- the sessions and the cache sweepers they start ---
    sessions,         \* per session slot: "none", "open" or "ended"
    sweeper           \* per session slot and cache: position of its cleanupRoutine

queueVars == << pc, pubRes, gateAtBegin, retryDelay, elapsed, sleepLeft,
           messageQueue, chanClosed, publisherCtxDone, ctxDone, stopCtxDone,
           callCtxDone, sem, consumerPc, consumerMsg, handled, procPc, rcpt, dispatched,
           resultChan, tmpFiles, stopPc, publisherDone, processorsDone,
           panicked >>

smtpVars == << connType, state, authenticated, currentMessage, response,
               command, nextID, publishResult, clientHelloHostname >>

ingestVars == << input, maxMessageSize, ingestPc, readPos, tail, totalWritten,
                 tempFile, finalFile, synced, closed, retSize, retErr >>

deliveryVars == << classRecipients, configuredMax, maxWorkers, coordPc, pending,
                  workerSem, worker, deliverErr, calls, outcomeChan, result >>

cacheVars == << capacity, ttl, items, lruList, hits, misses, now, lastOp,
               lastPut, lastUse, opCount >>

backoffVars == << cfgRetryDelay, cfgMaxRetryDelay, cfgPublishTimeout, backoffPc,
                 delay, maxDelay, totalTimeout, sinceStart, waits >>

connVars == << totalConnections, ipConnections, counter, acceptPc, acceptIP,
              acceptVal, conn >>

validatorVars == << systemCache, virtualCache, rvCapacity, rvTTL, clock, rvPc,
                   rvType, rvKey, rvChecks, rvAnswer, lastCheck, evictedSince >>

sweeperVars == << sessions, sweeper >>

otherVars == << backoffVars, connVars, validatorVars, sweeperVars >>

vars == << queueVars, spool, smtpVars, ingestVars, deliveryVars, cacheVars,
           otherVars >>

sessionVars == << pc, pubRes, gateAtBegin, retryDelay, elapsed, sleepLeft >>

consumerVars == << consumerPc, consumerMsg, handled >>

procVars == << procPc, rcpt, dispatched, resultChan >>

stopVars == << stopPc, publisherDone, processorsDone >>

ctxVars == << publisherCtxDone, ctxDone, stopCtxDone, callCtxDone >>

\* NewQueue: empty channel, empty semaphore, open publisher gate
QueueInit ==
    /\ pc = [m \in Msgs |-> "idle"]
    /\ pubRes = [m \in Msgs |-> "none"]
    /\ gateAtBegin = [m \in Msgs |-> "none"]
    /\ retryDelay = [m \in Msgs |-> 0]
    /\ elapsed = [m \in Msgs |-> 0]
    /\ sleepLeft = [m \in Msgs |-> 0]
    /\ messageQueue = << >>
    /\ chanClosed = FALSE
    /\ publisherCtxDone = FALSE
    /\ ctxDone = FALSE
    /\ stopCtxDone = FALSE
    /\ callCtxDone = [m \in Msgs |-> FALSE]
    /\ sem = 0
    /\ consumerPc = "off"
    /\ consumerMsg = 0
    /\ handled = [m \in Msgs |-> 0]
    /\ procPc = [m \in Msgs |-> "none"]
    /\ rcpt = [m \in Msgs |-> NoRcpt]
    /\ dispatched = [m \in Msgs |-> {}]
    /\ resultChan = [m \in Msgs |-> {}]
    /\ spool = [d \in MessageStates |-> {}]
    /\ tmpFiles = {}
    /\ stopPc = "idle"
    /\ publisherDone = FALSE
    /\ processorsDone = FALSE
    /\ panicked = FALSE

\* nil *Message
NoMessage == [id |-> 0]

\* no command read yet
NoCommand == [verb |-> "none"]

\* no session is being served
SessionIdle ==
    /\ connType = "none"
    /\ state = "Closed"
    /\ authenticated = FALSE
    /\ currentMessage = NoMessage
    /\ response = "none"
    /\ command = NoCommand
    /\ nextID = 1
    /\ publishResult = "none"
    /\ clientHelloHostname = ""

\* a file that does not exist
NoFile == << "absent" >>

\* no byte-level StreamEmailContent call is being followed
IngestIdle ==
    /\ input = << >>
    /\ maxMessageSize = 0
    /\ ingestPc = "off"
    /\ readPos = 0
    /\ tail = << >>
    /\ totalWritten = 0
    /\ tempFile = NoFile
    /\ finalFile = NoFile
    /\ synced = FALSE
    /\ closed = FALSE
    /\ retSize = 0
    /\ retErr = "none"

\* the largest number of recipients of the class that is followed
MaxClassRecipients == 3

\* the recipients a class can hold
DeliveryRecipients == 1..MaxClassRecipients

\* an empty DeliveryResult
NoResult == [Successful |-> << >>, Failed |-> << >>]

\* no DeliverWithWorkers call is being followed at the level of its workers
DeliveryIdle ==
    /\ classRecipients = {}
    /\ configuredMax = 0
    /\ maxWorkers = 0
    /\ coordPc = "off"
    /\ pending = {}
    /\ workerSem = 0
    /\ worker = [r \in DeliveryRecipients |-> "none"]
    /\ deliverErr = [r \in DeliveryRecipients |-> "none"]
    /\ calls = [r \in DeliveryRecipients |-> 0]
    /\ outcomeChan = << >>
    /\ result = NoResult

\* the number of different keys offered to the cache
NumKeys == 3

\* the keys of the cache
CacheKeys == 1..NumKeys

\* no time
NoTime == -1

\* no cache operation yet
NoOp == [op |-> "none"]

\* no cache is being followed
CacheIdle ==
    /\ capacity = 0
    /\ ttl = 0
    /\ items = << >>
    /\ lruList = << >>
    /\ hits = 0
    /\ misses = 0
    /\ now = 0
    /\ lastOp = NoOp
    /\ lastPut = [k \in CacheKeys |-> NoTime]
    /\ lastUse = [k \in CacheKeys |-> 0]
    /\ opCount = 0

\* no retry loop is being followed
BackoffIdle ==
    /\ cfgRetryDelay = 0
    /\ cfgMaxRetryDelay = 0
    /\ cfgPublishTimeout = 0
    /\ backoffPc = "idle"
    /\ delay = 0
    /\ maxDelay = 0
    /\ totalTimeout = 0
    /\ sinceStart = 0
    /\ waits = << >>

\* number of connection slots followed
NumConns == 3

ConnSlots == 1..NumConns

\* the client addresses getClientIP returns
IPs == {"ip1", "ip2"}

UnknownClientIP == "unknown"

\* the *int64 values; one per key, one per goroutine that can hold one
Counters == 1..(Cardinality(IPs) + NumConns + 1)

\* no counter: the key is absent, or nothing was loaded
NoCounter == 0

\* a slot without connection
FreeSlot == [pc |-> "free", ip |-> UnknownClientIP, val |-> NoCounter]

\* no server is being followed
ServerIdle ==
    /\ totalConnections = 0
    /\ ipConnections = [ip \in IPs |-> NoCounter]
    /\ counter = [p \in Counters |-> 0]
    /\ acceptPc = "idle"
    /\ acceptIP = UnknownClientIP
    /\ acceptVal = NoCounter
    /\ conn = [c \in ConnSlots |-> FreeSlot]

\* number of keys per validator cache
NumRcptKeys == 2

RcptKeys == 1..NumRcptKeys

\* the recipient classes that are validated through a cache
CachedTypes == {"local", "virtual"}

\* an empty LRUCache
EmptyCache == [items |-> << >>, lruList |-> << >>]

\* no check of the key has returned yet
NoCheck == [time |-> NoTime]

\* no validator is being followed
ValidatorIdle ==
    /\ systemCache = EmptyCache
    /\ virtualCache = EmptyCache
    /\ rvCapacity = 0
    /\ rvTTL = 0
    /\ clock = 0
    /\ rvPc = "none"
    /\ rvType = "none"
    /\ rvKey = 0
    /\ rvChecks = 0
    /\ rvAnswer = FALSE
    /\ lastCheck = [t \in CachedTypes |-> [k \in RcptKeys |-> NoCheck]]
    /\ evictedSince = [t \in CachedTypes |-> [k \in RcptKeys |-> FALSE]]

\* number of session slots followed
NumSessions == 3

SessionSlots == 1..NumSessions

\* the two caches of a session's RcptValidator
CacheNames == {"systemCache", "virtualCache"}

\* no session was created
SweeperIdle ==
    /\ sessions = [s \in SessionSlots |-> "none"]
    /\ sweeper = [s \in SessionSlots |-> [c \in CacheNames |-> "none"]]

OtherIdle == BackoffIdle /\ ServerIdle /\ ValidatorIdle /\ SweeperIdle

\* the queue and the spool, with the sessions reduced to their DATA transactions
Init == QueueInit /\ SessionIdle /\ IngestIdle /\ DeliveryIdle /\ CacheIdle /\ OtherIdle

(* ---------------- helpers ---------------- *)

\* publisherWg: PublishMessage calls between wg.Add(1) and the deferred wg.Done()
InPublish(m) == pc[m] \in {"check", "try", "loop", "sleep", "retry"}

PublisherWg == Cardinality({m \in Msgs : InPublish(m)})

\* processorWg: processMessage goroutines that have not returned
Running(m) == procPc[m] \in {"start", "deliver"}

ProcessorWg == Cardinality({m \in Msgs : Running(m)})

\* q.consumerDone is closed: the consumer loop returned, because the channel
\* was closed and drained ("done") or because ctx was cancelled ("cancelled")
ConsumerDone == consumerPc \in {"done", "cancelled"}

\* number of occurrences of m in the channel buffer
InBuffer(m) == Cardinality({i \in 1..Len(messageQueue) : messageQueue[i] = m})

\* directories that hold a file of message m
DirsOf(m) == {d \in MessageStates : m \in spool[d]}

(* ---------------- spool ---------------- *)

\* MoveMessage(spoolDir, msg, from, to): os.Rename of the body file
\* between two state directories
MoveMessage(sp, m, from, to) ==
    [sp EXCEPT ![from] = sp[from] \ {m}, ![to] = sp[to] \cup {m}]

(* ---------------- DATA: StreamEmailContent ---------------- *)

\* os.OpenFile(tempFile, O_CREATE|O_EXCL): the temp file appears
StreamCreateTemp(m) ==
    /\ ~panicked
    /\ pc[m] = "idle"
    /\ m \notin tmpFiles
    /\ tmpFiles' = tmpFiles \cup {m}
    /\ pc' = [pc EXCEPT ![m] = "ingest"]
    /\ UNCHANGED << pubRes, gateAtBegin, retryDelay, elapsed, sleepLeft,
                    messageQueue, chanClosed, ctxVars, sem, consumerVars,
                    procVars, spool, stopVars, panicked >>
    /\ UNCHANGED << smtpVars, ingestVars, deliveryVars, cacheVars, otherVars >>

\* streamSMTPData, Sync and Close succeeded: os.Rename(tempFile, finalFile)
StreamRename(m) ==
    /\ ~panicked
    /\ pc[m] = "ingest"
    /\ tmpFiles' = tmpFiles \ {m}
    /\ spool' = [spool EXCEPT !["incoming"] = @ \cup {m}]
    /\ pc' = [pc EXCEPT ![m] = "stored"]
    /\ UNCHANGED << pubRes, gateAtBegin, retryDelay, elapsed, sleepLeft,
                    messageQueue, chanClosed, ctxVars, sem, consumerVars,
                    procVars, stopVars, panicked >>
    /\ UNCHANGED << smtpVars, ingestVars, deliveryVars, cacheVars, otherVars >>

\* any error return of StreamEmailContent: the deferred cleanup finds no
\* final file and removes the temp file; DATA is answered 451
StreamFail(m) ==
    /\ ~panicked
    /\ pc[m] = "ingest"
    /\ tmpFiles' = tmpFiles \ {m}
    /\ pc' = [pc EXCEPT ![m] = "rejected"]
    /\ UNCHANGED << pubRes, gateAtBegin, retryDelay, elapsed, sleepLeft,
                    messageQueue, chanClosed, ctxVars, sem, consumerVars,
                    procVars, spool, stopVars, panicked >>
    /\ UNCHANGED << smtpVars, ingestVars, deliveryVars, cacheVars, otherVars >>

(* ---------------- Queue.PublishMessage ---------------- *)

\* return err: the deferred publisherWg.Done() and the end of the locals
PublishReturn(m, res) ==
    /\ pc' = [pc EXCEPT ![m] = "returned"]
    /\ pubRes' = [pubRes EXCEPT ![m] = res]
    /\ retryDelay' = [retryDelay EXCEPT ![m] = 0]
    /\ elapsed' = [elapsed EXCEPT ![m] = 0]
    /\ sleepLeft' = [sleepLeft EXCEPT ![m] = 0]

\* q.publisherWg.Add(1)
PublishBegin(m) ==
    /\ ~panicked
    /\ pc[m] = "stored"
    /\ pc' = [pc EXCEPT ![m] = "check"]
    /\ gateAtBegin' = [gateAtBegin EXCEPT ![m] =
                          IF publisherCtxDone THEN "closed" ELSE "open"]
    /\ UNCHANGED << pubRes, retryDelay, elapsed, sleepLeft,
                    messageQueue, chanClosed, ctxVars, sem, consumerVars,
                    procVars, spool, tmpFiles, stopVars, panicked >>
    /\ UNCHANGED << smtpVars, ingestVars, deliveryVars, cacheVars, otherVars >>

\* PublishMessage without its gate check: the call goes on to the deposit
PublishCheckNoGate(m) ==
    /\ ~panicked
    /\ pc[m] = "check"
    /\ pc' = [pc EXCEPT ![m] = "try"]
    /\ UNCHANGED << pubRes, retryDelay, elapsed, sleepLeft >>
    /\ UNCHANGED << gateAtBegin, messageQueue, chanClosed, ctxVars, sem,
                    consumerVars, procVars, spool, tmpFiles, stopVars, panicked >>
    /\ UNCHANGED << smtpVars, ingestVars, deliveryVars, cacheVars, otherVars >>

\* the gate check: select { case <-q.publisherCtx.Done(): return ErrQueueClosed; default: }
PublishCheck(m) ==
    /\ ~panicked
    /\ pc[m] = "check"
    /\ IF publisherCtxDone
          THEN PublishReturn(m, "QueueClosed")
          ELSE /\ pc' = [pc EXCEPT ![m] = "try"]
               /\ UNCHANGED << pubRes, retryDelay, elapsed, sleepLeft >>
    /\ UNCHANGED << gateAtBegin, messageQueue, chanClosed, ctxVars, sem,
                    consumerVars, procVars, spool, tmpFiles, stopVars, panicked >>
    /\ UNCHANGED << smtpVars, ingestVars, deliveryVars, cacheVars, otherVars >>

\* the select of the immediate attempt (at = "try") and of a retry
\* (at = "retry"): a ready case is chosen among the ready ones, the default
\* only when none is ready.  A send on a closed channel is ready and panics.
PublishSelect(m, at) ==
    /\ ~panicked
    /\ pc[m] = at
    /\ \/ \* case q.messageQueue <- msg
          /\ ~chanClosed
          /\ Len(messageQueue) < BufferSize
          /\ messageQueue' = Append(messageQueue, m)
          /\ PublishReturn(m, "Ok")
          /\ UNCHANGED panicked
       \/ \* case q.messageQueue <- msg, on the closed channel
          /\ chanClosed
          /\ panicked' = TRUE
          /\ UNCHANGED << messageQueue, pc, pubRes, retryDelay, elapsed, sleepLeft >>
       \/ \* case <-q.publisherCtx.Done()
          /\ publisherCtxDone
          /\ PublishReturn(m, "QueueClosed")
          /\ UNCHANGED << messageQueue, panicked >>
       \/ \* default
          /\ ~chanClosed
          /\ Len(messageQueue) >= BufferSize
          /\ ~publisherCtxDone
          /\ pc' = [pc EXCEPT ![m] = "loop"]
          /\ retryDelay' = [retryDelay EXCEPT ![m] =
                IF at = "try"
                   THEN RetryDelay
                   ELSE IF retryDelay[m] < MaxRetryDelay
                           THEN IF retryDelay[m] * 2 > MaxRetryDelay
                                   THEN MaxRetryDelay
                                   ELSE retryDelay[m] * 2
                           ELSE retryDelay[m]]
          /\ UNCHANGED << messageQueue, pubRes, elapsed, sleepLeft, panicked >>
    /\ UNCHANGED << gateAtBegin, chanClosed, ctxVars, sem, consumerVars,
                    procVars, spool, tmpFiles, stopVars >>
    /\ UNCHANGED << smtpVars, ingestVars, deliveryVars, cacheVars, otherVars >>

\* "Try immediate publish first"
PublishTry(m) == PublishSelect(m, "try")

\* "Try to publish again"
PublishRetry(m) == PublishSelect(m, "retry")

\* the retry loop with its budget compared to the wrong duration (retryDelay
\* instead of totalTimeout)
PublishLoopEarly(m) ==
    /\ ~panicked
    /\ pc[m] = "loop"
    /\ IF elapsed[m] >= retryDelay[m]
          THEN PublishReturn(m, "QueueFull")
          ELSE /\ pc' = [pc EXCEPT ![m] = "sleep"]
               /\ sleepLeft' = [sleepLeft EXCEPT ![m] = retryDelay[m]]
               /\ UNCHANGED << pubRes, retryDelay, elapsed >>
    /\ UNCHANGED << gateAtBegin, messageQueue, chanClosed, ctxVars, sem,
                    consumerVars, procVars, spool, tmpFiles, stopVars, panicked >>
    /\ UNCHANGED << smtpVars, ingestVars, deliveryVars, cacheVars, otherVars >>

\* head of the retry loop: the total-timeout check, then time.Sleep(retryDelay)
PublishLoop(m) ==
    /\ ~panicked
    /\ pc[m] = "loop"
    /\ IF elapsed[m] >= PublishTimeout
          THEN PublishReturn(m, "QueueFull")
          ELSE /\ pc' = [pc EXCEPT ![m] = "sleep"]
               /\ sleepLeft' = [sleepLeft EXCEPT ![m] = retryDelay[m]]
               /\ UNCHANGED << pubRes, retryDelay, elapsed >>
    /\ UNCHANGED << gateAtBegin, messageQueue, chanClosed, ctxVars, sem,
                    consumerVars, procVars, spool, tmpFiles, stopVars, panicked >>
    /\ UNCHANGED << smtpVars, ingestVars, deliveryVars, cacheVars, otherVars >>

\* time.Sleep(retryDelay) returns
PublishWake(m) ==
    /\ ~panicked
    /\ pc[m] = "sleep"
    /\ sleepLeft[m] = 0
    /\ pc' = [pc EXCEPT ![m] = "retry"]
    /\ UNCHANGED << pubRes, gateAtBegin, retryDelay, elapsed, sleepLeft,
                    messageQueue, chanClosed, ctxVars, sem, consumerVars,
                    procVars, spool, tmpFiles, stopVars, panicked >>
    /\ UNCHANGED << smtpVars, ingestVars, deliveryVars, cacheVars, otherVars >>

\* one tick of wall time passes for every PublishMessage call in its retry loop
Tick ==
    /\ ~panicked
    /\ \E m \in Msgs : /\ pc[m] \in {"loop", "sleep", "retry"}
                       /\ (elapsed[m] < PublishTimeout \/ sleepLeft[m] > 0)
    /\ elapsed' = [m \in Msgs |->
                     IF pc[m] \in {"loop", "sleep", "retry"} /\ elapsed[m] < PublishTimeout
                        THEN elapsed[m] + 1 ELSE elapsed[m]]
    /\ sleepLeft' = [m \in Msgs |->
                     IF sleepLeft[m] > 0 THEN sleepLeft[m] - 1 ELSE 0]
    /\ UNCHANGED << pc, pubRes, gateAtBegin, retryDelay, messageQueue, chanClosed,
                    ctxVars, sem, consumerVars, procVars, spool, tmpFiles,
                    stopVars, panicked >>
    /\ UNCHANGED << smtpVars, ingestVars, deliveryVars, cacheVars, otherVars >>

(* ---------------- Queue.StartConsumer ---------------- *)

\* StartConsumer: the consumer loop goroutine starts
StartConsumer ==
    /\ ~panicked
    /\ consumerPc = "off"
    /\ consumerPc' = "recv"
    /\ UNCHANGED << sessionVars, messageQueue, chanClosed, ctxVars, sem,
                    consumerMsg, handled, procVars, spool, tmpFiles, stopVars,
                    panicked >>
    /\ UNCHANGED << smtpVars, ingestVars, deliveryVars, cacheVars, otherVars >>

\* a receive that leaves the message in the buffer
ConsumerReceivePeek ==
    /\ ~panicked
    /\ consumerPc = "recv"
    /\ Len(messageQueue) > 0
    /\ consumerMsg' = Head(messageQueue)
    /\ consumerPc' = "acquire"
    /\ UNCHANGED << sessionVars, messageQueue, chanClosed, ctxVars, sem, handled,
                    procVars, spool, tmpFiles, stopVars, panicked >>
    /\ UNCHANGED << smtpVars, ingestVars, deliveryVars, cacheVars, otherVars >>

\* case msg, ok := <-q.messageQueue, with ok: a buffered message is taken out
ConsumerReceive ==
    /\ ~panicked
    /\ consumerPc = "recv"
    /\ Len(messageQueue) > 0
    /\ consumerMsg' = Head(messageQueue)
    /\ messageQueue' = Tail(messageQueue)
    /\ consumerPc' = "acquire"
    /\ UNCHANGED << sessionVars, chanClosed, ctxVars, sem, handled, procVars,
                    spool, tmpFiles, stopVars, panicked >>
    /\ UNCHANGED << smtpVars, ingestVars, deliveryVars, cacheVars, otherVars >>

\* a consumer loop that returns as soon as the channel is closed, without
\* draining what is buffered
ConsumerExitClosedNoDrain ==
    /\ ~panicked
    /\ consumerPc = "recv"
    /\ chanClosed
    /\ consumerPc' = "done"
    /\ UNCHANGED << sessionVars, messageQueue, chanClosed, ctxVars, sem,
                    consumerMsg, handled, procVars, spool, tmpFiles, stopVars,
                    panicked >>
    /\ UNCHANGED << smtpVars, ingestVars, deliveryVars, cacheVars, otherVars >>

\* case msg, ok := <-q.messageQueue, with !ok: the channel is closed and drained
ConsumerExitClosed ==
    /\ ~panicked
    /\ consumerPc = "recv"
    /\ Len(messageQueue) = 0
    /\ chanClosed
    /\ consumerPc' = "done"
    /\ UNCHANGED << sessionVars, messageQueue, chanClosed, ctxVars, sem,
                    consumerMsg, handled, procVars, spool, tmpFiles, stopVars,
                    panicked >>
    /\ UNCHANGED << smtpVars, ingestVars, deliveryVars, cacheVars, otherVars >>

\* case <-ctx.Done(): the loop exits, whatever the buffer holds
ConsumerExitCtx ==
    /\ ~panicked
    /\ consumerPc = "recv"
    /\ ctxDone
    /\ consumerPc' = "cancelled"
    /\ UNCHANGED << sessionVars, messageQueue, chanClosed, ctxVars, sem,
                    consumerMsg, handled, procVars, spool, tmpFiles, stopVars,
                    panicked >>
    /\ UNCHANGED << smtpVars, ingestVars, deliveryVars, cacheVars, otherVars >>

\* a consumer loop that spawns without acquiring the semaphore
ConsumerSpawnNoLimit ==
    /\ ~panicked
    /\ consumerPc = "acquire"
    /\ sem' = sem + 1
    /\ procPc' = [procPc EXCEPT ![consumerMsg] = "start"]
    /\ handled' = [handled EXCEPT ![consumerMsg] = IF @ < 2 THEN @ + 1 ELSE @]
    /\ consumerMsg' = 0
    /\ consumerPc' = "recv"
    /\ UNCHANGED << sessionVars, messageQueue, chanClosed, ctxVars, rcpt,
                    dispatched, resultChan, spool, tmpFiles, stopVars, panicked >>
    /\ UNCHANGED << smtpVars, ingestVars, deliveryVars, cacheVars, otherVars >>

\* q.sem <- struct{}{} (blocks while the semaphore is full), then
\* q.processorWg.Go(...): the processor goroutine of the held message starts
ConsumerSpawn ==
    /\ ~panicked
    /\ consumerPc = "acquire"
    /\ sem < MaxConsumers
    /\ sem' = sem + 1
    /\ procPc' = [procPc EXCEPT ![consumerMsg] = "start"]
    /\ handled' = [handled EXCEPT ![consumerMsg] = IF @ < 2 THEN @ + 1 ELSE @]
    /\ consumerMsg' = 0
    /\ consumerPc' = "recv"
    /\ UNCHANGED << sessionVars, messageQueue, chanClosed, ctxVars, rcpt,
                    dispatched, resultChan, spool, tmpFiles, stopVars, panicked >>
    /\ UNCHANGED << smtpVars, ingestVars, deliveryVars, cacheVars, otherVars >>

(* ---------------- Queue.processMessage ---------------- *)

\* processMessage returns: the locals end, the deferred <-q.sem releases the slot
ProcessReturn(m) ==
    /\ procPc' = [procPc EXCEPT ![m] = "done"]
    /\ rcpt' = [rcpt EXCEPT ![m] = NoRcpt]
    /\ dispatched' = [dispatched EXCEPT ![m] = {}]
    /\ resultChan' = [resultChan EXCEPT ![m] = {}]
    /\ sem' = sem - 1

\* the delivery plan: one coordinator goroutine for each of
\* localRecipients, virtualRecipients that is not empty
DeliveryTypes(r) == {c \in {"local", "virtual"} : r[c] # {}}

\* a processor that goes on to the deliveries although the move into
\* processing/ failed
ProcessMoveInContinues(m) ==
    /\ ~panicked
    /\ procPc[m] = "start"
    /\ \/ /\ m \in spool["incoming"]
          /\ spool' = MoveMessage(spool, m, "incoming", "processing")
       \/ UNCHANGED spool
    /\ \E r \in MessageRecipients :
          /\ rcpt' = [rcpt EXCEPT ![m] = r]
          /\ dispatched' = [dispatched EXCEPT ![m] = DeliveryTypes(r)]
    /\ procPc' = [procPc EXCEPT ![m] = "deliver"]
    /\ UNCHANGED << sem, resultChan >>
    /\ UNCHANGED << sessionVars, messageQueue, chanClosed, ctxVars,
                    consumerVars, tmpFiles, stopVars, panicked >>
    /\ UNCHANGED << smtpVars, ingestVars, deliveryVars, cacheVars, otherVars >>

\* MoveMessage(incoming -> processing); on success the recipients of msg are
\* read and the class coordinators are started; on failure the processor returns
ProcessMoveIn(m) ==
    /\ ~panicked
    /\ procPc[m] = "start"
    /\ \/ /\ m \in spool["incoming"]
          /\ spool' = MoveMessage(spool, m, "incoming", "processing")
          /\ \E r \in MessageRecipients :
                /\ rcpt' = [rcpt EXCEPT ![m] = r]
                /\ dispatched' = [dispatched EXCEPT ![m] = DeliveryTypes(r)]
          /\ procPc' = [procPc EXCEPT ![m] = "deliver"]
          /\ UNCHANGED << sem, resultChan >>
       \/ \* the rename failed
          /\ ProcessReturn(m)
          /\ UNCHANGED spool
    /\ UNCHANGED << sessionVars, messageQueue, chanClosed, ctxVars,
                    consumerVars, tmpFiles, stopVars, panicked >>
    /\ UNCHANGED << smtpVars, ingestVars, deliveryVars, cacheVars, otherVars >>

\* DeliverWithWorkers(ctx, recipients, maxWorkers, type, deliverFunc): the
\* results it can return, one for every way the per-recipient deliveries
\* can succeed or fail
DeliverWithWorkers(recipients, type) ==
    { [type |-> type, successful |-> recipients \ f, failed |-> f] :
        f \in SUBSET recipients }

\* a class coordinator goroutine: resultChan <- DeliverWithWorkers(...).
\* Once the processor's context is done every delivery function returns
\* ctx.Err() at its first statement, so every recipient fails.
ClassDeliver(m, c) ==
    /\ ~panicked
    /\ procPc[m] = "deliver"
    /\ c \in dispatched[m]
    /\ \A r \in resultChan[m] : r.type # c
    /\ \E res \in DeliverWithWorkers(rcpt[m][c], c) :
          /\ ctxDone => res.successful = {}
          /\ resultChan' = [resultChan EXCEPT ![m] = @ \cup {res}]
    /\ UNCHANGED << sessionVars, messageQueue, chanClosed, ctxVars, sem,
                    consumerVars, procPc, rcpt, dispatched, spool, tmpFiles,
                    stopVars, panicked >>
    /\ UNCHANGED << smtpVars, ingestVars, deliveryVars, cacheVars, otherVars >>

\* totalFailed: the sum of len(result.Failed) over the collected results
TotalFailed(results) ==
    LET n(c) == IF \E r \in results : r.type = c
                   THEN Cardinality((CHOOSE r \in results : r.type = c).failed)
                   ELSE 0
    IN n("local") + n("virtual") + n("relay")

\* totalSuccessful: the sum of len(result.Successful) over the collected results
TotalSuccessful(results) ==
    LET n(c) == IF \E r \in results : r.type = c
                   THEN Cardinality((CHOOSE r \in results : r.type = c).successful)
                   ELSE 0
    IN n("local") + n("virtual") + n("relay")

\* a final state decided by the successes instead of the failures
FinalStateAnySuccess(results) ==
    IF TotalSuccessful(results) > 0 THEN "delivered" ELSE "failed"

\* finalState: delivered when totalFailed == 0, failed otherwise
FinalState(results) ==
    IF TotalFailed(results) = 0 THEN "delivered" ELSE "failed"

\* a final move that copies the body and leaves the source in processing/
ProcessFinishCopy(m) ==
    /\ ~panicked
    /\ procPc[m] = "deliver"
    /\ Cardinality(resultChan[m]) = Cardinality(dispatched[m])
    /\ \/ /\ m \in spool["processing"]
          /\ spool' = [spool EXCEPT ![FinalState(resultChan[m])] = @ \cup {m}]
       \/ UNCHANGED spool
    /\ ProcessReturn(m)
    /\ UNCHANGED << sessionVars, messageQueue, chanClosed, ctxVars,
                    consumerVars, tmpFiles, stopVars, panicked >>
    /\ UNCHANGED << smtpVars, ingestVars, deliveryVars, cacheVars, otherVars >>

\* all deliveryTypes results are collected; MoveMessage(processing ->
\* finalState), which may fail; then processMessage returns
ProcessFinish(m) ==
    /\ ~panicked
    /\ procPc[m] = "deliver"
    /\ Cardinality(resultChan[m]) = Cardinality(dispatched[m])
    /\ \/ /\ m \in spool["processing"]
          /\ spool' = MoveMessage(spool, m, "processing", FinalState(resultChan[m]))
       \/ \* the rename failed
          UNCHANGED spool
    /\ ProcessReturn(m)
    /\ UNCHANGED << sessionVars, messageQueue, chanClosed, ctxVars,
                    consumerVars, tmpFiles, stopVars, panicked >>
    /\ UNCHANGED << smtpVars, ingestVars, deliveryVars, cacheVars, otherVars >>

(* ---------------- contexts ---------------- *)

\* the root context is cancelled; q.publisherCtx is its child and is
\* cancelled with it, and so is the context every caller hands to
\* PublishMessage (the sessions pass the server's context on)
CancelRoot ==
    /\ ~panicked
    /\ ~ctxDone
    /\ ctxDone' = TRUE
    /\ publisherCtxDone' = TRUE
    /\ callCtxDone' = [m \in Msgs |-> TRUE]
    /\ UNCHANGED << sessionVars, messageQueue, chanClosed, stopCtxDone, sem,
                    consumerVars, procVars, spool, tmpFiles, stopVars, panicked >>
    /\ UNCHANGED << smtpVars, ingestVars, deliveryVars, cacheVars, otherVars >>

\* the context given to Stop expires or is cancelled
StopCtxExpire ==
    /\ ~panicked
    /\ ~stopCtxDone
    /\ stopCtxDone' = TRUE
    /\ UNCHANGED << sessionVars, messageQueue, chanClosed, publisherCtxDone,
                    ctxDone, callCtxDone, sem, consumerVars, procVars, spool,
                    tmpFiles, stopVars, panicked >>
    /\ UNCHANGED << smtpVars, ingestVars, deliveryVars, cacheVars, otherVars >>

\* the caller of PublishMessage(ctx, msg) cancels the ctx it passed while the
\* call is running
CancelCall(m) ==
    /\ ~panicked
    /\ pc[m] \in {"check", "try", "loop", "sleep", "retry"}
    /\ ~callCtxDone[m]
    /\ callCtxDone' = [callCtxDone EXCEPT ![m] = TRUE]
    /\ UNCHANGED << sessionVars, messageQueue, chanClosed, publisherCtxDone,
                    ctxDone, stopCtxDone, sem, consumerVars, procVars, spool,
                    tmpFiles, stopVars, panicked >>
    /\ UNCHANGED << smtpVars, ingestVars, deliveryVars, cacheVars, otherVars >>

(* ---------------- Queue.Stop ---------------- *)

\* Phase 1: q.publisherCancel().  Stop is called on a queue whose consumer
\* was started (Server.Start starts it right after NewQueue).
StopBegin ==
    /\ ~panicked
    /\ stopPc = "idle"
    /\ consumerPc # "off"
    /\ publisherCtxDone' = TRUE
    /\ stopPc' = "waitPublishers"
    /\ UNCHANGED << sessionVars, messageQueue, chanClosed, ctxDone, stopCtxDone,
                    callCtxDone, sem, consumerVars, procVars, spool, tmpFiles, publisherDone,
                    processorsDone, panicked >>
    /\ UNCHANGED << smtpVars, ingestVars, deliveryVars, cacheVars, otherVars >>

\* Phase 2 helper goroutine: q.publisherWg.Wait(); close(publisherDone)
PublisherWaiter ==
    /\ ~panicked
    /\ stopPc # "idle"
    /\ ~publisherDone
    /\ PublisherWg = 0
    /\ publisherDone' = TRUE
    /\ UNCHANGED << sessionVars, messageQueue, chanClosed, ctxVars, sem,
                    consumerVars, procVars, spool, tmpFiles, stopPc,
                    processorsDone, panicked >>
    /\ UNCHANGED << smtpVars, ingestVars, deliveryVars, cacheVars, otherVars >>

\* a Stop that closes the channel without waiting for the publishers
StopCloseChannelNoWait ==
    /\ ~panicked
    /\ stopPc = "waitPublishers"
    /\ chanClosed' = TRUE
    /\ stopPc' = "waitConsumer"
    /\ UNCHANGED << sessionVars, messageQueue, ctxVars, sem, consumerVars,
                    procVars, spool, tmpFiles, publisherDone, processorsDone,
                    panicked >>
    /\ UNCHANGED << smtpVars, ingestVars, deliveryVars, cacheVars, otherVars >>

\* Phase 2 select (publisherDone or ctx.Done()), then
\* Phase 3: close(q.messageQueue)
StopCloseChannel ==
    /\ ~panicked
    /\ stopPc = "waitPublishers"
    /\ (publisherDone \/ stopCtxDone)
    /\ chanClosed' = TRUE
    /\ stopPc' = "waitConsumer"
    /\ UNCHANGED << sessionVars, messageQueue, ctxVars, sem, consumerVars,
                    procVars, spool, tmpFiles, publisherDone, processorsDone,
                    panicked >>
    /\ UNCHANGED << smtpVars, ingestVars, deliveryVars, cacheVars, otherVars >>

\* a Stop that goes on to phase 5 without waiting for the consumer loop
StopSkipConsumerWait ==
    /\ ~panicked
    /\ stopPc = "waitConsumer"
    /\ stopPc' = "waitProcessors"
    /\ UNCHANGED << sessionVars, messageQueue, chanClosed, ctxVars, sem,
                    consumerVars, procVars, spool, tmpFiles, publisherDone,
                    processorsDone, panicked >>
    /\ UNCHANGED << smtpVars, ingestVars, deliveryVars, cacheVars, otherVars >>

\* Phase 4: <-q.consumerDone
StopConsumerExited ==
    /\ ~panicked
    /\ stopPc = "waitConsumer"
    /\ ConsumerDone
    /\ stopPc' = "waitProcessors"
    /\ UNCHANGED << sessionVars, messageQueue, chanClosed, ctxVars, sem,
                    consumerVars, procVars, spool, tmpFiles, publisherDone,
                    processorsDone, panicked >>
    /\ UNCHANGED << smtpVars, ingestVars, deliveryVars, cacheVars, otherVars >>

\* Phase 5 helper goroutine: q.processorWg.Wait(); close(done)
ProcessorWaiter ==
    /\ ~panicked
    /\ stopPc \in {"waitProcessors", "stopped", "deadline"}
    /\ ~processorsDone
    /\ ProcessorWg = 0
    /\ processorsDone' = TRUE
    /\ UNCHANGED << sessionVars, messageQueue, chanClosed, ctxVars, sem,
                    consumerVars, procVars, spool, tmpFiles, stopPc,
                    publisherDone, panicked >>
    /\ UNCHANGED << smtpVars, ingestVars, deliveryVars, cacheVars, otherVars >>

\* Phase 5 select: case <-done: return nil
StopReturnNil ==
    /\ ~panicked
    /\ stopPc = "waitProcessors"
    /\ processorsDone
    /\ stopPc' = "stopped"
    /\ UNCHANGED << sessionVars, messageQueue, chanClosed, ctxVars, sem,
                    consumerVars, procVars, spool, tmpFiles, publisherDone,
                    processorsDone, panicked >>
    /\ UNCHANGED << smtpVars, ingestVars, deliveryVars, cacheVars, otherVars >>

\* Phase 5 select: case <-ctx.Done(): return ctx.Err()
StopReturnDeadline ==
    /\ ~panicked
    /\ stopPc = "waitProcessors"
    /\ stopCtxDone
    /\ stopPc' = "deadline"
    /\ UNCHANGED << sessionVars, messageQueue, chanClosed, ctxVars, sem,
                    consumerVars, procVars, spool, tmpFiles, publisherDone,
                    processorsDone, panicked >>
    /\ UNCHANGED << smtpVars, ingestVars, deliveryVars, cacheVars, otherVars >>

\* the steps of the goroutine that runs Stop itself
StopStep ==
    \/ StopBegin
    \/ StopCloseChannel
    \/ StopConsumerExited
    \/ StopReturnNil
    \/ StopReturnDeadline

(* ---------------- the system ---------------- *)

Next ==
    \/ \E m \in Msgs : StreamCreateTemp(m)
    \/ \E m \in Msgs : StreamRename(m)
    \/ \E m \in Msgs : StreamFail(m)
    \/ \E m \in Msgs : PublishBegin(m)
    \/ \E m \in Msgs : PublishCheck(m)
    \/ \E m \in Msgs : PublishTry(m)
    \/ \E m \in Msgs : PublishLoop(m)
    \/ \E m \in Msgs : PublishWake(m)
    \/ \E m \in Msgs : PublishRetry(m)
    \/ Tick
    \/ StartConsumer
    \/ ConsumerReceive
    \/ ConsumerExitClosed
    \/ ConsumerExitCtx
    \/ ConsumerSpawn
    \/ \E m \in Msgs : ProcessMoveIn(m)
    \/ \E m \in Msgs, c \in Classes : ClassDeliver(m, c)
    \/ \E m \in Msgs : ProcessFinish(m)
    \/ CancelRoot
    \/ \E m \in Msgs : CancelCall(m)
    \/ StopCtxExpire
    \/ StopBegin
    \/ PublisherWaiter
    \/ StopCloseChannel
    \/ StopConsumerExited
    \/ ProcessorWaiter
    \/ StopReturnNil
    \/ StopReturnDeadline

Spec == Init /\ [][Next]_vars

(* ---------------- properties ---------------- *)

\* the message was deposited into the buffer at some point
Deposited(m) ==
    InBuffer(m) > 0 \/ consumerMsg = m \/ procPc[m] # "none" \/ handled[m] > 0

\* the body of m was persisted by StreamEmailContent (the rename happened)
Persisted(m) == pc[m] \in {"stored", "check", "try", "loop", "sleep", "retry", "returned"}

\* C1: a PublishMessage call that begins after the publisher gate was closed
\* never gets past the gate check and returns ErrQueueClosed without
\* depositing; a message whose publish returned ErrQueueClosed is never in
\* the buffer, never held by the consumer loop and never given to a processor.
PublishAfterGateClosedRejected ==
    \A m \in Msgs :
        /\ gateAtBegin[m] = "closed" =>
              /\ pc[m] \in {"check", "returned"}
              /\ pubRes[m] \in {"none", "QueueClosed"}
              /\ ~Deposited(m)
        /\ pubRes[m] = "QueueClosed" => ~Deposited(m)

\* C1 witness: a call that began with the gate closed has returned ErrQueueClosed
\* while the channel itself was still open and had room
WitnessPublishAfterGateClosed ==
    \E m \in Msgs :
        /\ gateAtBegin[m] = "closed"
        /\ pubRes[m] = "QueueClosed"
        /\ ~chanClosed
        /\ Len(messageQueue) < BufferSize

\* C3: the number of processMessage goroutines that are running never
\* exceeds MaxConsumers.
ProcessorsBounded == ProcessorWg <= MaxConsumers

\* C3 witness: the semaphore is full and the consumer loop holds a further
\* message, blocked on the acquire
WitnessProcessorsBounded ==
    /\ ProcessorWg = MaxConsumers
    /\ MaxConsumers > 0
    /\ consumerPc = "acquire"

\* C4: a message is given to at most one processor, at most once, and is
\* never in the buffer twice (nor in the buffer while held or processed).
ProcessedAtMostOnce ==
    \A m \in Msgs :
        /\ handled[m] <= 1
        /\ InBuffer(m) + (IF consumerMsg = m THEN 1 ELSE 0) + handled[m] <= 1
        /\ Deposited(m) => pubRes[m] = "Ok"

\* C4 witness: a published message went through its processor exactly once
WitnessProcessedOnce ==
    \E m \in Msgs : pubRes[m] = "Ok" /\ handled[m] = 1 /\ procPc[m] = "done"

Processed(m) ==
    /\ procPc[m] = "done"
    /\ handled[m] = 1
    /\ InBuffer(m) = 0
    /\ consumerMsg # m

\* C2 as stated: when Stop has returned nil, every message whose publish
\* returned nil was taken out of the buffer and its processor ran to
\* completion; none is left in the buffer.
StopNilAllProcessed ==
    stopPc = "stopped" =>
        \A m \in Msgs : pubRes[m] = "Ok" => Processed(m)

\* C2 amended: when Stop has returned nil and the consumer loop exited because
\* the channel was closed and drained (not because its own context was
\* cancelled), every message whose publish returned nil was taken out of the
\* buffer and its processor ran to completion, its body being in exactly one
\* spool directory; when the consumer loop exited on cancellation, a message
\* that is still in the buffer has its body in incoming/.
StopNilAllProcessedUnlessCancelled ==
    stopPc = "stopped" =>
        \A m \in Msgs : pubRes[m] = "Ok" =>
            /\ Cardinality(DirsOf(m)) = 1
            /\ consumerPc = "done" => Processed(m)
            /\ ~Processed(m) => InBuffer(m) = 1 /\ DirsOf(m) = {"incoming"}

\* C2 witness: Stop returned nil after the consumer loop drained the closed
\* channel, and a published message ended in delivered/
WitnessStopNilAllProcessed ==
    /\ stopPc = "stopped"
    /\ consumerPc = "done"
    /\ \E m \in Msgs : pubRes[m] = "Ok" /\ Processed(m) /\ DirsOf(m) = {"delivered"}

\* the steps that can bring a waiting Stop forward without any processor
\* finishing: those of Stop itself and those of the consumer loop it waits for
StopProgress ==
    \/ StopStep
    \/ ConsumerReceive
    \/ ConsumerExitClosed
    \/ ConsumerExitCtx
    \/ ConsumerSpawn

\* C5 as stated: once the context given to Stop is done, a Stop that has not
\* returned does not go on blocking on unfinished work: Stop itself, or the
\* consumer loop whose exit it awaits, has a step to take that needs no
\* processor to finish first.
StopReturnsOnceCtxDone ==
    ( /\ stopCtxDone
      /\ ~panicked
      /\ stopPc \in {"waitPublishers", "waitConsumer", "waitProcessors"} )
        => ENABLED StopProgress

\* C6: Stop closes the channel only with the publisher gate closed and only
\* when every PublishMessage call that began with the gate open has returned
\* or Stop's context is done; it starts waiting for the processors only
\* after the consumer loop has exited.
StopPhasesInOrder ==
    [][ /\ (chanClosed' /\ ~chanClosed) =>
              /\ publisherCtxDone
              /\ stopPc = "waitPublishers"
              /\ \/ stopCtxDone
                 \/ \A m \in Msgs : gateAtBegin[m] = "open" => ~InPublish(m)
        /\ (stopPc' = "waitProcessors" /\ stopPc # "waitProcessors") =>
              /\ chanClosed
              /\ ConsumerDone
        /\ (publisherCtxDone' /\ ~publisherCtxDone) => ~chanClosed ]_vars

\* C6 witness: Stop went through all its phases and returned nil, having
\* waited for a call that was in flight when the gate closed
WitnessStopPhasesInOrder ==
    /\ stopPc = "stopped"
    /\ ~stopCtxDone
    /\ ~ctxDone
    /\ \E m \in Msgs : gateAtBegin[m] = "open" /\ pubRes[m] = "QueueClosed"

\* C7: with the gate open, a deposit attempt that finds room returns nil at
\* once with the message appended; an attempt that finds the buffer full
\* goes (back) into the retry loop and leaves the buffer alone; and
\* ErrQueueFull is returned only when PublishTimeout has elapsed since the
\* retry loop started, with the buffer unchanged.
PublishFullAfterTimeout ==
    [][ \A m \in Msgs :
          /\ ( /\ pc[m] \in {"try", "retry"}
               /\ pc'[m] # pc[m]
               /\ ~publisherCtxDone
               /\ Len(messageQueue) < BufferSize )
             => /\ pubRes'[m] = "Ok"
                /\ messageQueue' = Append(messageQueue, m)
          /\ ( /\ pc[m] \in {"try", "retry"}
               /\ pc'[m] # pc[m]
               /\ ~publisherCtxDone
               /\ Len(messageQueue) >= BufferSize )
             => /\ pc'[m] = "loop"
                /\ pubRes'[m] = "none"
                /\ messageQueue' = messageQueue
          /\ (pubRes'[m] = "QueueFull" /\ pubRes[m] # "QueueFull")
             => /\ elapsed[m] >= PublishTimeout
                /\ messageQueue' = messageQueue ]_vars

\* C7 witness: the first message sits in the full buffer, unconsumed, the
\* gate is open, and the publish of the second one has returned ErrQueueFull
WitnessPublishFullAfterTimeout ==
    \E m1, m2 \in Msgs :
        /\ pubRes[m1] = "Ok" /\ InBuffer(m1) = 1
        /\ Len(messageQueue) = BufferSize
        /\ pubRes[m2] = "QueueFull"
        /\ ~publisherCtxDone

\* C9: when the processor makes its final move, the body goes to delivered/
\* if the Failed list of every collected result is empty and to failed/
\* otherwise; one result was collected for every class dispatched.
FinalMoveByFailedLists ==
    [][ \A m \in Msgs :
          (procPc[m] = "deliver" /\ procPc'[m] = "done" /\ spool' # spool) =>
             /\ {r.type : r \in resultChan[m]} = dispatched[m]
             /\ \A r \in resultChan[m] :
                   r.successful \cup r.failed = rcpt[m][r.type]
             /\ IF \A r \in resultChan[m] : r.failed = {}
                   THEN m \in spool'["delivered"] /\ m \notin spool'["failed"]
                   ELSE m \in spool'["failed"] /\ m \notin spool'["delivered"]
             /\ m \notin spool'["processing"] ]_vars

\* C9 witness: every result is collected, one recipient failed and others
\* succeeded, and the processor is about to make its final move
WitnessOneFailedRecipient ==
    \E m \in Msgs :
        /\ procPc[m] = "deliver"
        /\ Cardinality(resultChan[m]) = Cardinality(dispatched[m])
        /\ TotalFailed(resultChan[m]) = 1
        /\ TotalSuccessful(resultChan[m]) = 2
        /\ \E m2 \in Msgs : DirsOf(m2) = {"failed"} /\ procPc[m2] = "done"

\* C10 as stated: the processor dispatches a coordinator for every
\* non-empty recipient class of the message, relay included.
EveryClassDispatched ==
    \A m \in Msgs :
        procPc[m] = "deliver" =>
            dispatched[m] = {c \in Classes : rcpt[m][c] # {}}

(***************************************************************************)
(* The SMTP session: one connection, its command loop and its handlers     *)
(* (Session in internal/smtp, with the TCP and the Unix-socket strategies). *)
(* Every command is one step, except DATA, which is answered 354 and then  *)
(* waits for the ingestor.                                                  *)
(***************************************************************************)

\* number of message identifiers one session may draw (MAIL commands that
\* pass the state check)
MaxMails == 2

\* cfg.Server.MaxRecipients
MaxRecipients == 2

\* cfg.Server.LocalDomains, VirtualDomains, RelayDomains; "both" is listed twice
LocalDomains == {"local", "both"}

VirtualDomains == {"virtual", "both"}

RelayDomains == {"relay"}

\* the case folding strings.EqualFold compares under
Fold(d) == IF d = "LOCAL" THEN "local" ELSE d

containsDomain(domains, domain) == \E d \in domains : Fold(d) = Fold(domain)

\* a mis-ordered classification: the virtual list is consulted first
classifyDomainVirtualFirst(domain) ==
    IF containsDomain(VirtualDomains, domain) THEN "virtual"
    ELSE IF containsDomain(LocalDomains, domain) THEN "local"
    ELSE IF containsDomain(RelayDomains, domain) THEN "relay"
    ELSE "external"

classifyDomain(domain) ==
    IF containsDomain(LocalDomains, domain) THEN "local"
    ELSE IF containsDomain(VirtualDomains, domain) THEN "virtual"
    ELSE IF containsDomain(RelayDomains, domain) THEN "relay"
    ELSE "external"

\* EmailAddress values ParseRcptToCommand can return (Full is the pair)
Addresses ==
    { [user |-> "a", domain |-> "local"],
      [user |-> "a", domain |-> "LOCAL"],
      [user |-> "b", domain |-> "virtual"],
      [user |-> "c", domain |-> "relay"],
      [user |-> "d", domain |-> "both"],
      [user |-> "e", domain |-> "other"] }

\* an argument ParseRcptToCommand rejects
BadAddress == [user |-> "", domain |-> ""]

\* &queue.Message{ID: ..., four empty recipient maps}
NewMessage(id) ==
    [id |-> id, LocalRecipients |-> {}, VirtualRecipients |-> {},
     RelayRecipients |-> {}, ExternalRecipients |-> {}]

TotalRecipients(m) ==
    Cardinality(m.LocalRecipients) + Cardinality(m.VirtualRecipients)
        + Cardinality(m.RelayRecipients) + Cardinality(m.ExternalRecipients)

\* the session loop is reading commands: the session was started, is not
\* closed, and no DATA handler is waiting for the ingestor
Serving ==
    /\ connType # "none"
    /\ state \notin {"Connected", "Closed"}
    /\ response # "354"

\* a handler's effect on the session, everything else left alone
Reply(cmd, st, msg, resp) ==
    /\ command' = cmd
    /\ state' = st
    /\ currentMessage' = msg
    /\ response' = resp
    /\ UNCHANGED << connType, clientHelloHostname, authenticated, nextID, publishResult,
                    queueVars, spool, ingestVars, deliveryVars, cacheVars, otherVars >>

\* a connection is accepted: NewTCPSession or NewSocketSession
SessionInit ==
    /\ connType \in {"tcp", "socket"}
    /\ state = "Connected"
    /\ authenticated = (connType = "socket")
    /\ currentMessage = NoMessage
    /\ response = "none"
    /\ command = NoCommand
    /\ nextID = 1
    /\ publishResult = "none"
    /\ clientHelloHostname = ""

\* tcpSessionHandler: sess.sendGreeting()
sendGreeting ==
    /\ connType = "tcp"
    /\ state = "Connected"
    /\ Reply(command, "Greeted", currentMessage, "220")

\* socketSessionHandler: no greeting, sess.state = StateGreeted
socketSessionHandler ==
    /\ connType = "socket"
    /\ state = "Connected"
    /\ Reply(command, "Greeted", currentMessage, response)

\* processCommand: an empty line
EmptyLine ==
    /\ Serving
    /\ Reply([verb |-> "", arg |-> "none"], state, currentMessage, "500")

\* processCommand: a verb outside the switch
NotImplemented ==
    /\ Serving
    /\ Reply([verb |-> "VRFY", arg |-> "none"], state, currentMessage, "502")

\* the name a client gives in a valid HELO/EHLO
HelloName == "client"

handleHelo(arg) ==
    /\ Serving
    /\ command' = [verb |-> "HELO", arg |-> arg]
    /\ IF arg = "valid"
          THEN /\ clientHelloHostname' = HelloName
               /\ state' = "Greeted"
               /\ response' = "250"
          ELSE /\ response' = "501"
               /\ UNCHANGED << clientHelloHostname, state >>
    /\ UNCHANGED << connType, authenticated, currentMessage, nextID, publishResult,
                    queueVars, spool, ingestVars, deliveryVars, cacheVars, otherVars >>

handleEhlo(arg) ==
    /\ Serving
    /\ command' = [verb |-> "EHLO", arg |-> arg]
    /\ IF arg = "valid"
          THEN /\ clientHelloHostname' = HelloName
               /\ state' = "Greeted"
               /\ response' = "250"
          ELSE /\ response' = "501"
               /\ UNCHANGED << clientHelloHostname, state >>
    /\ UNCHANGED << connType, authenticated, currentMessage, nextID, publishResult,
                    queueVars, spool, ingestVars, deliveryVars, cacheVars, otherVars >>

\* handleAuth without the check of the session state
handleAuthNoStateCheck(arg) ==
    /\ Serving
    /\ connType = "tcp"
    /\ command' = [verb |-> "AUTH", arg |-> arg]
    /\ IF arg = "missing" THEN
            /\ response' = "501"
            /\ UNCHANGED << state, authenticated >>
       ELSE IF arg = "unsupported" THEN
            /\ response' = "501"
            /\ UNCHANGED << state, authenticated >>
       ELSE IF arg = "good" THEN
            /\ authenticated' = TRUE
            /\ state' = "Authenticated"
            /\ response' = "235"
       ELSE /\ response' = "535"
            /\ UNCHANGED << state, authenticated >>
    /\ UNCHANGED << connType, clientHelloHostname, currentMessage, nextID, publishResult,
                    queueVars, spool, ingestVars, deliveryVars, cacheVars, otherVars >>

\* TCPDataHandler.HandleAuth -> handleAuth -> handleAuthPlain/Login ->
\* authenticateUser.  arg: "missing" (no mechanism), "unsupported", or the
\* authenticator's verdict on the credentials, "good" or "bad"
handleAuth(arg) ==
    /\ Serving
    /\ connType = "tcp"
    /\ command' = [verb |-> "AUTH", arg |-> arg]
    /\ IF arg = "missing" THEN
            /\ response' = "501"
            /\ UNCHANGED << state, authenticated >>
       ELSE IF state # "Greeted" \/ authenticated THEN
            /\ response' = "503"
            /\ UNCHANGED << state, authenticated >>
       ELSE IF arg = "unsupported" THEN
            /\ response' = "501"
            /\ UNCHANGED << state, authenticated >>
       ELSE IF arg = "good" THEN
            /\ authenticated' = TRUE
            /\ state' = "Authenticated"
            /\ response' = "235"
       ELSE /\ response' = "535"
            /\ UNCHANGED << state, authenticated >>
    /\ UNCHANGED << connType, clientHelloHostname, currentMessage, nextID, publishResult,
                    queueVars, spool, ingestVars, deliveryVars, cacheVars, otherVars >>

\* SocketDataHandler.HandleAuth
SocketHandleAuth(arg) ==
    /\ Serving
    /\ connType = "socket"
    /\ Reply([verb |-> "AUTH", arg |-> arg], state, currentMessage, "503")

\* TCPDataHandler.HandleMail -> handleMail.  arg: "valid", or "invalid" for an
\* argument ParseMailFromCommand rejects.  The Message is created before the
\* argument is parsed.
handleMail(arg) ==
    /\ Serving
    /\ connType = "tcp"
    /\ state \in {"Greeted", "Authenticated"} => nextID <= MaxMails
    /\ command' = [verb |-> "MAIL", arg |-> arg]
    /\ IF state \notin {"Greeted", "Authenticated"} THEN
            /\ response' = "503"
            /\ UNCHANGED << state, currentMessage, nextID >>
       ELSE /\ currentMessage' = NewMessage(nextID)
            /\ nextID' = nextID + 1
            /\ IF arg = "valid"
                  THEN state' = "MailFrom" /\ response' = "250"
                  ELSE response' = "501" /\ UNCHANGED state
    /\ UNCHANGED << connType, clientHelloHostname, authenticated, publishResult,
                    queueVars, spool, ingestVars, deliveryVars, cacheVars, otherVars >>

\* SocketDataHandler.HandleMail.  arg: "missing", "invalid", "notallowed" (the
\* sender validator refuses the sender) or "valid"
SocketHandleMail(arg) ==
    /\ Serving
    /\ connType = "socket"
    /\ (state = "Greeted" /\ arg = "valid") => nextID <= MaxMails
    /\ command' = [verb |-> "MAIL", arg |-> arg]
    /\ IF state # "Greeted" THEN
            /\ response' = "503"
            /\ UNCHANGED << state, currentMessage, nextID >>
       ELSE IF arg \in {"missing", "invalid"} THEN
            /\ response' = "500"
            /\ UNCHANGED << state, currentMessage, nextID >>
       ELSE IF arg = "notallowed" THEN
            /\ response' = "550"
            /\ UNCHANGED << state, currentMessage, nextID >>
       ELSE /\ currentMessage' = NewMessage(nextID)
            /\ nextID' = nextID + 1
            /\ state' = "MailFrom"
            /\ response' = "250"
    /\ UNCHANGED << connType, clientHelloHostname, authenticated, publishResult,
                    queueVars, spool, ingestVars, deliveryVars, cacheVars, otherVars >>

\* the recipient map of a class
RecipientsOf(m, type) ==
    CASE type = "local" -> m.LocalRecipients
      [] type = "virtual" -> m.VirtualRecipients
      [] type = "relay" -> m.RelayRecipients
      [] type = "external" -> m.ExternalRecipients

\* m.<Class>Recipients[emailAddr.Full] = struct{}{}
AddRecipient(m, type, a) ==
    CASE type = "local" -> [m EXCEPT !.LocalRecipients = @ \cup {a}]
      [] type = "virtual" -> [m EXCEPT !.VirtualRecipients = @ \cup {a}]
      [] type = "relay" -> [m EXCEPT !.RelayRecipients = @ \cup {a}]
      [] type = "external" -> [m EXCEPT !.ExternalRecipients = @ \cup {a}]

\* handleRcpt that lets a recipient refused as a local user fall through to
\* the virtual class when its domain is also a virtual domain
handleRcptFallThrough(a, valid) ==
    /\ Serving
    /\ LET cmd == [verb |-> "RCPT", arg |-> a]
           first == classifyDomain(a.domain)
           domainType == IF first = "local" /\ ~valid
                            /\ containsDomain(VirtualDomains, a.domain)
                         THEN "virtual" ELSE first
           accepted == valid \/ domainType # first
       IN  IF state \notin {"MailFrom", "RcptTo"} THEN
                Reply(cmd, state, currentMessage, "503")
           ELSE IF MaxRecipients > 0
                   /\ TotalRecipients(currentMessage) >= MaxRecipients THEN
                Reply(cmd, state, currentMessage, "552")
           ELSE IF a = BadAddress THEN
                Reply(cmd, state, currentMessage, "501")
           ELSE IF domainType = "external" THEN
                Reply(cmd, state, currentMessage, "554")
           ELSE IF domainType \in {"local", "virtual"} /\ ~accepted THEN
                Reply(cmd, state, currentMessage, "550")
           ELSE IF a \in RecipientsOf(currentMessage, domainType) THEN
                Reply(cmd, state, currentMessage, "250")
           ELSE Reply(cmd, "RcptTo",
                      AddRecipient(currentMessage, domainType, a), "250")

\* handleRcpt that relays for authenticated clients: an external recipient
\* of an authenticated session is recorded and accepted
handleRcptRelayForAuth(a, valid) ==
    /\ Serving
    /\ LET cmd == [verb |-> "RCPT", arg |-> a]
           domainType == classifyDomain(a.domain)
       IN  IF state \notin {"MailFrom", "RcptTo"} THEN
                Reply(cmd, state, currentMessage, "503")
           ELSE IF MaxRecipients > 0
                   /\ TotalRecipients(currentMessage) >= MaxRecipients THEN
                Reply(cmd, state, currentMessage, "552")
           ELSE IF a = BadAddress THEN
                Reply(cmd, state, currentMessage, "501")
           ELSE IF domainType = "external" /\ ~authenticated THEN
                Reply(cmd, state, currentMessage, "554")
           ELSE IF domainType \in {"local", "virtual"} /\ ~valid THEN
                Reply(cmd, state, currentMessage, "550")
           ELSE IF a \in RecipientsOf(currentMessage, domainType) THEN
                Reply(cmd, state, currentMessage, "250")
           ELSE Reply(cmd, "RcptTo",
                      AddRecipient(currentMessage, domainType, a), "250")

\* handleRcpt whose limit check is off by one (> for >=)
handleRcptLimitOffByOne(a, valid) ==
    /\ Serving
    /\ LET cmd == [verb |-> "RCPT", arg |-> a]
           domainType == classifyDomain(a.domain)
       IN  IF state \notin {"MailFrom", "RcptTo"} THEN
                Reply(cmd, state, currentMessage, "503")
           ELSE IF MaxRecipients > 0
                   /\ TotalRecipients(currentMessage) > MaxRecipients THEN
                Reply(cmd, state, currentMessage, "552")
           ELSE IF a = BadAddress THEN
                Reply(cmd, state, currentMessage, "501")
           ELSE IF domainType = "external" THEN
                Reply(cmd, state, currentMessage, "554")
           ELSE IF domainType \in {"local", "virtual"} /\ ~valid THEN
                Reply(cmd, state, currentMessage, "550")
           ELSE IF a \in RecipientsOf(currentMessage, domainType) THEN
                Reply(cmd, state, currentMessage, "250")
           ELSE Reply(cmd, "RcptTo",
                      AddRecipient(currentMessage, domainType, a), "250")

\* handleRcpt.  a: the parsed address or BadAddress; valid: the answer of
\* rcptValidator.IsRecipientValid (a lookup that can also time out)
handleRcpt(a, valid) ==
    /\ Serving
    /\ LET cmd == [verb |-> "RCPT", arg |-> a]
           domainType == classifyDomain(a.domain)
       IN  IF state \notin {"MailFrom", "RcptTo"} THEN
                Reply(cmd, state, currentMessage, "503")
           ELSE IF MaxRecipients > 0
                   /\ TotalRecipients(currentMessage) >= MaxRecipients THEN
                Reply(cmd, state, currentMessage, "552")
           ELSE IF a = BadAddress THEN
                Reply(cmd, state, currentMessage, "501")
           ELSE IF domainType = "external" THEN
                Reply(cmd, state, currentMessage, "554")
           ELSE IF domainType \in {"local", "virtual"} /\ ~valid THEN
                Reply(cmd, state, currentMessage, "550")
           ELSE IF a \in RecipientsOf(currentMessage, domainType) THEN
                Reply(cmd, state, currentMessage, "250")
           ELSE Reply(cmd, "RcptTo",
                      AddRecipient(currentMessage, domainType, a), "250")

\* resetSession that forgets the authentication
resetSessionGreeted == "Greeted"

\* resetSession: the state a transaction ends in
resetSession == IF authenticated THEN "Authenticated" ELSE "Greeted"

\* HandleData that checks the recipients but not the session state
HandleDataNoStateCheck ==
    /\ Serving
    /\ LET cmd == [verb |-> "DATA", arg |-> "none"]
       IN  IF currentMessage = NoMessage THEN
                Reply(cmd, state, currentMessage, "503")
           ELSE IF TotalRecipients(currentMessage) = 0 THEN
                Reply(cmd, state, currentMessage, "503")
           ELSE Reply(cmd, "Data", currentMessage, "354")

\* HandleData up to the 354 reply (TCPDataHandler.HandleData;
\* SocketDataHandler.HandleData is the same statement by statement)
HandleData ==
    /\ Serving
    /\ LET cmd == [verb |-> "DATA", arg |-> "none"]
       IN  IF state # "RcptTo" THEN
                Reply(cmd, state, currentMessage, "503")
           ELSE IF TotalRecipients(currentMessage) = 0 THEN
                Reply(cmd, state, currentMessage, "503")
           ELSE Reply(cmd, "Data", currentMessage, "354")

\* HandleData after StreamEmailContent returned an error
HandleDataFailed ==
    /\ connType # "none"
    /\ response = "354"
    /\ Reply(command, state, currentMessage, "451")

\* HandleData that fails the transaction when the publish fails
HandleDataStoredPublishFails(pub) ==
    /\ connType # "none"
    /\ response = "354"
    /\ spool' = [spool EXCEPT !["incoming"] = @ \cup {currentMessage.id}]
    /\ publishResult' = pub
    /\ IF pub = "Ok"
          THEN /\ state' = resetSession
               /\ currentMessage' = NoMessage
               /\ response' = "250"
          ELSE /\ response' = "451"
               /\ UNCHANGED << state, currentMessage >>
    /\ UNCHANGED << connType, clientHelloHostname, authenticated, command, nextID,
                    queueVars, ingestVars, deliveryVars, cacheVars, otherVars >>

\* HandleData after StreamEmailContent returned nil: the body is in
\* incoming/; PublishMessage returns pub, which is logged and dropped
HandleDataStored(pub) ==
    /\ connType # "none"
    /\ response = "354"
    /\ spool' = [spool EXCEPT !["incoming"] = @ \cup {currentMessage.id}]
    /\ publishResult' = pub
    /\ state' = resetSession
    /\ currentMessage' = NoMessage
    /\ response' = "250"
    /\ UNCHANGED << connType, clientHelloHostname, authenticated, command, nextID,
                    queueVars, ingestVars, deliveryVars, cacheVars, otherVars >>

handleRset ==
    /\ Serving
    /\ Reply([verb |-> "RSET", arg |-> "none"], resetSession, NoMessage, "250")

handleNoop ==
    /\ Serving
    /\ Reply([verb |-> "NOOP", arg |-> "none"], state, currentMessage, "250")

handleQuit ==
    /\ Serving
    /\ Reply([verb |-> "QUIT", arg |-> "none"], "Closed", currentMessage, "221")

SessionNext ==
    \/ sendGreeting
    \/ socketSessionHandler
    \/ EmptyLine
    \/ NotImplemented
    \/ \E arg \in {"valid", "invalid"} : handleHelo(arg)
    \/ \E arg \in {"valid", "invalid"} : handleEhlo(arg)
    \/ \E arg \in {"missing", "unsupported", "good", "bad"} : handleAuth(arg)
    \/ \E arg \in {"good"} : SocketHandleAuth(arg)
    \/ \E arg \in {"valid", "invalid"} : handleMail(arg)
    \/ \E arg \in {"missing", "invalid", "notallowed", "valid"} : SocketHandleMail(arg)
    \/ \E a \in Addresses \cup {BadAddress}, valid \in BOOLEAN : handleRcpt(a, valid)
    \/ HandleData
    \/ HandleDataFailed
    \/ \E pub \in {"Ok", "QueueFull", "QueueClosed"} : HandleDataStored(pub)
    \/ handleRset
    \/ handleNoop
    \/ handleQuit

SessionSpecInit ==
    QueueInit /\ SessionInit /\ IngestIdle /\ DeliveryIdle /\ CacheIdle /\ OtherIdle

SessionSpec == SessionSpecInit /\ [][SessionNext]_vars

(* ---------------- properties of the session ---------------- *)

\* the step is the session handling an RCPT command
RcptStep == Serving /\ command'.verb = "RCPT"

\* the step is the session handling a DATA command up to its first reply
DataStep == Serving /\ command'.verb = "DATA"

\* the recipients of a message, over all four classes
AllRecipients(m) ==
    m.LocalRecipients \cup m.VirtualRecipients
        \cup m.RelayRecipients \cup m.ExternalRecipients

\* C11: RCPT is accepted (250) only in state MailFrom or RcptTo and DATA is
\* accepted (354) only in state RcptTo with at least one recipient; in any
\* other state the command is answered 503 and the session state and the
\* current message stay as they were.
RcptDataOnlyInSequence ==
    [][ /\ RcptStep /\ state \notin {"MailFrom", "RcptTo"} =>
              /\ response' = "503"
              /\ state' = state
              /\ currentMessage' = currentMessage
        /\ RcptStep /\ response' = "250" => state \in {"MailFrom", "RcptTo"}
        /\ DataStep /\ response' = "354" =>
              /\ state = "RcptTo"
              /\ TotalRecipients(currentMessage) > 0
        /\ DataStep /\ state # "RcptTo" =>
              /\ response' = "503"
              /\ state' = state
              /\ currentMessage' = currentMessage
      ]_vars

\* DATA was refused in MailFrom, and RCPT can still be refused after a HELO in
\* mid-transaction: here the former, with the message kept
WitnessRcptDataOnlyInSequence ==
    /\ command.verb = "DATA"
    /\ response = "503"
    /\ state = "MailFrom"
    /\ currentMessage # NoMessage

\* C12: an authenticated session stays authenticated: the flag is never
\* cleared, and every RSET and every completed DATA transaction of an
\* authenticated session ends in state Authenticated, never Greeted.
StaysAuthenticated ==
    [][ /\ authenticated => authenticated'
        /\ authenticated /\ Serving /\ command'.verb = "RSET" =>
              state' = "Authenticated"
        /\ authenticated /\ response = "354" /\ response' = "250" =>
              state' = "Authenticated"
      ]_vars

\* a TCP session that authenticated has completed a DATA transaction
WitnessStaysAuthenticated ==
    /\ connType = "tcp"
    /\ authenticated
    /\ publishResult # "none"
    /\ response = "250"
    /\ command.verb = "DATA"
    /\ state = "Authenticated"

\* C13: the local, virtual, relay and external recipient sets of the current
\* message are pairwise disjoint.
RecipientSetsDisjoint ==
    currentMessage # NoMessage =>
        \A t1, t2 \in {"local", "virtual", "relay", "external"} :
            t1 # t2 =>
                RecipientsOf(currentMessage, t1)
                    \cap RecipientsOf(currentMessage, t2) = {}

\* a message with an address of the doubly listed domain among its local
\* recipients and a virtual recipient next to it
WitnessRecipientSetsDisjoint ==
    /\ currentMessage # NoMessage
    /\ [user |-> "d", domain |-> "both"] \in currentMessage.LocalRecipients
    /\ currentMessage.VirtualRecipients # {}

\* the domain is in none of the configured lists
InNoList(domain) ==
    ~containsDomain(LocalDomains \cup VirtualDomains \cup RelayDomains, domain)

DuplicateRcptIdempotent ==
    [][ /\ RcptStep
        /\ state \in {"MailFrom", "RcptTo"}
        /\ command'.arg \in AllRecipients(currentMessage)
        => /\ response' = "250"
           /\ currentMessage' = currentMessage
      ]_vars

\* C16: total_recipients never exceeds max_recipients, and an RCPT of a
\* transaction whose total_recipients equals max_recipients is answered 552
\* and changes no recipient set.
RecipientLimit ==
    /\ [](currentMessage # NoMessage =>
              TotalRecipients(currentMessage) <= MaxRecipients)
    /\ [][ /\ RcptStep
           /\ state \in {"MailFrom", "RcptTo"}
           /\ TotalRecipients(currentMessage) = MaxRecipients
           => /\ response' = "552"
              /\ currentMessage' = currentMessage
       ]_vars

\* an RCPT was refused with 552 at exactly max_recipients recipients
WitnessRecipientLimit ==
    /\ command.verb = "RCPT"
    /\ response = "552"
    /\ currentMessage # NoMessage
    /\ TotalRecipients(currentMessage) = MaxRecipients

\* C17: when the ingestor has persisted the body, DATA is answered 250 and the
\* session returns to Greeted or Authenticated whatever PublishMessage
\* returned, and no body file leaves incoming/ on the session's account.
PublishFailureStillAccepted ==
    [][ /\ response = "354" /\ spool'["incoming"] # spool["incoming"] =>
              /\ response' = "250"
              /\ state' \in {"Greeted", "Authenticated"}
              /\ publishResult' \in {"Ok", "QueueFull", "QueueClosed"}
        /\ spool["incoming"] \subseteq spool'["incoming"]
      ]_vars

\* a DATA transaction was answered 250 although the queue was full
WitnessPublishFailureStillAccepted ==
    /\ command.verb = "DATA"
    /\ response = "250"
    /\ publishResult = "QueueFull"
    /\ state = "Greeted"
    /\ spool["incoming"] # {}

(***************************************************************************)
(* The streaming ingestor at the level of bytes: one call of               *)
(* StreamEmailContent (internal/storage/storage.go) on one reader, with    *)
(* the temp file and the final file of the message in incoming/.           *)
(***************************************************************************)

\* longest input the reader delivers before it reports EOF
MaxInputLen == 7

\* buf := make([]byte, 1024): the most one Read returns
BufLen == 1024

\* CR, LF, the dot, and any other byte
Bytes == {"CR", "LF", "DOT", "A"}

terminator == << "CR", "LF", "DOT", "CR", "LF" >>

\* cfg.Server.MaxMessageSize: 0 is no limit
MessageSizeLimits == {0, 1, 3}

\* what the reader can deliver
Inputs == UNION { [1..n -> Bytes] : n \in 0..MaxInputLen }

Min(a, b) == IF a < b THEN a ELSE b

\* bytes.Index(s, terminator): the 0-based place of the first match, or -1
Index(s) ==
    LET matches == { i \in 1..Len(s) :
                       /\ i + Len(terminator) - 1 <= Len(s)
                       /\ SubSeq(s, i, i + Len(terminator) - 1) = terminator }
    IN  IF matches = {} THEN -1
        ELSE (CHOOSE i \in matches : \A j \in matches : i <= j) - 1

\* s[:n] and s[n:]
Prefix(s, n) == SubSeq(s, 1, n)

Suffix(s, n) == SubSeq(s, n + 1, Len(s))

\* the start of a followed call
IngestInit ==
    /\ input \in Inputs
    /\ maxMessageSize \in MessageSizeLimits
    /\ ingestPc = "start"
    /\ readPos = 0
    /\ tail = << >>
    /\ totalWritten = 0
    /\ tempFile = NoFile
    /\ finalFile = NoFile
    /\ synced = FALSE
    /\ closed = FALSE
    /\ retSize = 0
    /\ retErr = "none"

\* an error return without the deferred cleanup
ReturnErrorNoCleanup(size, err) ==
    /\ ingestPc' = "returned"
    /\ retSize' = size
    /\ retErr' = err
    /\ closed' = TRUE
    /\ readPos' = 0
    /\ tail' = << >>
    /\ totalWritten' = 0
    /\ UNCHANGED << input, maxMessageSize, tempFile, finalFile, synced >>

\* an error return of StreamEmailContent after the temp file was created: the
\* deferred function closes the file, finds no final file, removes the temp file
ReturnError(size, err) ==
    /\ ingestPc' = "returned"
    /\ retSize' = size
    /\ retErr' = err
    /\ tempFile' = NoFile
    /\ closed' = TRUE
    /\ readPos' = 0
    /\ tail' = << >>
    /\ totalWritten' = 0
    /\ UNCHANGED << input, maxMessageSize, finalFile, synced >>

\* StreamEmailContent up to the creation of the temp file.  ctxDone: the
\* context is already cancelled; created: os.OpenFile(O_CREATE|O_EXCL) succeeds
StreamEmailContent(cancelled, created) ==
    /\ ingestPc = "start"
    /\ IF cancelled \/ ~created
          THEN /\ ingestPc' = "returned"
               /\ retErr' = IF cancelled THEN "ctx" ELSE "create"
               /\ UNCHANGED tempFile
          ELSE /\ ingestPc' = "read"
               /\ tempFile' = << >>
               /\ UNCHANGED retErr
    /\ UNCHANGED << input, maxMessageSize, readPos, tail, totalWritten,
                    finalFile, synced, closed, retSize >>
    /\ UNCHANGED << queueVars, spool, smtpVars,
                    deliveryVars, cacheVars, otherVars >>

\* streamSMTPData that keeps no tail: what was read is written at once
streamSMTPDataNoTail(n) ==
    /\ ingestPc = "read"
    /\ n \in 1..Min(BufLen, Len(input) - readPos)
    /\ LET chunk == SubSeq(input, readPos + 1, readPos + n)
           searchBuf == tail \o chunk
           idx == Index(searchBuf)
           messageData == Prefix(searchBuf, idx)
       IN  IF idx # -1 THEN
                IF maxMessageSize > 0
                   /\ totalWritten + Len(messageData) + 2 > maxMessageSize
                THEN ReturnError(totalWritten, "size")
                ELSE /\ tempFile' = tempFile \o messageData \o << "CR", "LF" >>
                     /\ totalWritten' = totalWritten + Len(messageData) + 2
                     /\ ingestPc' = "sync"
                     /\ readPos' = 0
                     /\ tail' = << >>
                     /\ UNCHANGED << input, maxMessageSize, finalFile, synced,
                                     closed, retSize, retErr >>
           ELSE IF maxMessageSize > 0
                   /\ totalWritten + Len(searchBuf) > maxMessageSize
                THEN ReturnError(totalWritten, "size")
                ELSE /\ tempFile' = tempFile \o searchBuf
                     /\ totalWritten' = totalWritten + Len(searchBuf)
                     /\ tail' = << >>
                     /\ readPos' = readPos + n
                     /\ UNCHANGED << input, maxMessageSize, ingestPc, finalFile,
                                     synced, closed, retSize, retErr >>
    /\ UNCHANGED << queueVars, spool, smtpVars,
                    deliveryVars, cacheVars, otherVars >>

\* streamSMTPData whose final size check forgets the closing CR LF
streamSMTPDataSizeNoCRLF(n) ==
    /\ ingestPc = "read"
    /\ n \in 1..Min(BufLen, Len(input) - readPos)
    /\ LET chunk == SubSeq(input, readPos + 1, readPos + n)
           searchBuf == tail \o chunk
           idx == Index(searchBuf)
           messageData == Prefix(searchBuf, idx)
           flushUpto == Len(searchBuf) - Len(terminator)
           lineData == Prefix(searchBuf, flushUpto)
       IN  IF idx # -1 THEN
                IF maxMessageSize > 0
                   /\ totalWritten + Len(messageData) > maxMessageSize
                THEN ReturnError(totalWritten, "size")
                ELSE /\ tempFile' = tempFile \o messageData \o << "CR", "LF" >>
                     /\ totalWritten' = totalWritten + Len(messageData) + 2
                     /\ ingestPc' = "sync"
                     /\ readPos' = 0
                     /\ tail' = << >>
                     /\ UNCHANGED << input, maxMessageSize, finalFile, synced,
                                     closed, retSize, retErr >>
           ELSE IF Len(searchBuf) > Len(terminator) THEN
                IF maxMessageSize > 0
                   /\ totalWritten + Len(lineData) > maxMessageSize
                THEN ReturnError(totalWritten, "size")
                ELSE /\ tempFile' = tempFile \o lineData
                     /\ totalWritten' = totalWritten + Len(lineData)
                     /\ tail' = Suffix(searchBuf, flushUpto)
                     /\ readPos' = readPos + n
                     /\ UNCHANGED << input, maxMessageSize, ingestPc, finalFile,
                                     synced, closed, retSize, retErr >>
           ELSE /\ tail' = searchBuf
                /\ readPos' = readPos + n
                /\ UNCHANGED << input, maxMessageSize, ingestPc, totalWritten,
                                tempFile, finalFile, synced, closed, retSize,
                                retErr >>
    /\ UNCHANGED << queueVars, spool, smtpVars,
                    deliveryVars, cacheVars, otherVars >>

\* one turn of the loop of streamSMTPData in which reader.Read returns n bytes
streamSMTPData(n) ==
    /\ ingestPc = "read"
    /\ n \in 1..Min(BufLen, Len(input) - readPos)
    /\ LET chunk == SubSeq(input, readPos + 1, readPos + n)
           searchBuf == tail \o chunk
           idx == Index(searchBuf)
           messageData == Prefix(searchBuf, idx)
           flushUpto == Len(searchBuf) - Len(terminator)
           lineData == Prefix(searchBuf, flushUpto)
       IN  IF idx # -1 THEN
                IF maxMessageSize > 0
                   /\ totalWritten + Len(messageData) + 2 > maxMessageSize
                THEN ReturnError(totalWritten, "size")
                ELSE /\ tempFile' = tempFile \o messageData \o << "CR", "LF" >>
                     /\ totalWritten' = totalWritten + Len(messageData) + 2
                     /\ ingestPc' = "sync"
                     /\ readPos' = 0
                     /\ tail' = << >>
                     /\ UNCHANGED << input, maxMessageSize, finalFile, synced,
                                     closed, retSize, retErr >>
           ELSE IF Len(searchBuf) > Len(terminator) THEN
                IF maxMessageSize > 0
                   /\ totalWritten + Len(lineData) > maxMessageSize
                THEN ReturnError(totalWritten, "size")
                ELSE /\ tempFile' = tempFile \o lineData
                     /\ totalWritten' = totalWritten + Len(lineData)
                     /\ tail' = Suffix(searchBuf, flushUpto)
                     /\ readPos' = readPos + n
                     /\ UNCHANGED << input, maxMessageSize, ingestPc, finalFile,
                                     synced, closed, retSize, retErr >>
           ELSE /\ tail' = searchBuf
                /\ readPos' = readPos + n
                /\ UNCHANGED << input, maxMessageSize, ingestPc, totalWritten,
                                tempFile, finalFile, synced, closed, retSize,
                                retErr >>
    /\ UNCHANGED << queueVars, spool, smtpVars,
                    deliveryVars, cacheVars, otherVars >>

\* an end of input that writes what is still in tail before it leaves the loop
streamSMTPDataEOFFlush ==
    /\ ingestPc = "read"
    /\ readPos = Len(input)
    /\ ingestPc' = "sync"
    /\ readPos' = 0
    /\ tail' = << >>
    /\ tempFile' = tempFile \o tail
    /\ totalWritten' = totalWritten + Len(tail)
    /\ UNCHANGED << input, maxMessageSize, finalFile,
                    synced, closed, retSize, retErr >>
    /\ UNCHANGED << queueVars, spool, smtpVars,
                    deliveryVars, cacheVars, otherVars >>

\* reader.Read returns io.EOF: the loop ends, what is still in tail is dropped
streamSMTPDataEOF ==
    /\ ingestPc = "read"
    /\ readPos = Len(input)
    /\ ingestPc' = "sync"
    /\ readPos' = 0
    /\ tail' = << >>
    /\ UNCHANGED << input, maxMessageSize, totalWritten, tempFile, finalFile,
                    synced, closed, retSize, retErr >>
    /\ UNCHANGED << queueVars, spool, smtpVars,
                    deliveryVars, cacheVars, otherVars >>

\* the check for an empty message, then file.Sync()
FileSync ==
    /\ ingestPc = "sync"
    /\ IF totalWritten = 0
          THEN ReturnError(0, "empty")
          ELSE /\ synced' = TRUE
               /\ ingestPc' = "close"
               /\ UNCHANGED << input, maxMessageSize, readPos, tail,
                               totalWritten, tempFile, finalFile, closed,
                               retSize, retErr >>
    /\ UNCHANGED << queueVars, spool, smtpVars,
                    deliveryVars, cacheVars, otherVars >>

\* file.Close()
FileClose ==
    /\ ingestPc = "close"
    /\ closed' = TRUE
    /\ ingestPc' = "rename"
    /\ UNCHANGED << input, maxMessageSize, readPos, tail, totalWritten,
                    tempFile, finalFile, synced, retSize, retErr >>
    /\ UNCHANGED << queueVars, spool, smtpVars,
                    deliveryVars, cacheVars, otherVars >>

\* a rename that does not wait for Sync and Close
RenameBeforeSync ==
    /\ ingestPc \in {"sync", "close", "rename"}
    /\ totalWritten > 0
    /\ finalFile' = tempFile
    /\ tempFile' = NoFile
    /\ ingestPc' = "returned"
    /\ retSize' = totalWritten
    /\ retErr' = "nil"
    /\ totalWritten' = 0
    /\ UNCHANGED << input, maxMessageSize, readPos, tail, synced, closed >>
    /\ UNCHANGED << queueVars, spool, smtpVars,
                    deliveryVars, cacheVars, otherVars >>

\* os.Rename(tempFile, finalFile) and the return of totalSize, nil
Rename ==
    /\ ingestPc = "rename"
    /\ finalFile' = tempFile
    /\ tempFile' = NoFile
    /\ ingestPc' = "returned"
    /\ retSize' = totalWritten
    /\ retErr' = "nil"
    /\ totalWritten' = 0
    /\ UNCHANGED << input, maxMessageSize, readPos, tail, synced, closed >>
    /\ UNCHANGED << queueVars, spool, smtpVars,
                    deliveryVars, cacheVars, otherVars >>

\* the errors the environment can cause at each place of the call
EnvErrors == {"ctx", "create", "timeout", "read", "write", "sync", "close", "rename"}

ErrorsAt(at) ==
    CASE at = "read" -> {"ctx", "timeout", "read", "write"}
      [] at = "sync" -> {"sync"}
      [] at = "close" -> {"close"}
      [] at = "rename" -> {"ctx", "rename"}
      [] OTHER -> {}

\* a cancelled context, a read timeout or an I/O error ends the call
StreamEmailContentError(err) ==
    /\ err \in ErrorsAt(ingestPc)
    /\ totalWritten > 0 \/ ingestPc = "read"
    /\ ReturnError(totalWritten, err)
    /\ UNCHANGED << queueVars, spool, smtpVars,
                    deliveryVars, cacheVars, otherVars >>

IngestNext ==
    \/ \E cancelled, created \in BOOLEAN : StreamEmailContent(cancelled, created)
    \/ \E n \in 1..MaxInputLen : streamSMTPData(n)
    \/ streamSMTPDataEOF
    \/ FileSync
    \/ FileClose
    \/ Rename
    \/ \E err \in EnvErrors : StreamEmailContentError(err)

IngestSpecInit ==
    QueueInit /\ SessionIdle /\ IngestInit /\ DeliveryIdle /\ CacheIdle /\ OtherIdle

IngestSpec == IngestSpecInit /\ [][IngestNext]_vars

(* ---------------- properties of the ingestor ---------------- *)

\* the input contains CR LF . CR LF
HasTerminator(s) == Index(s) # -1

\* the bytes before the first terminator, closed by one CR LF
ExpectedBody(s) == Prefix(s, Index(s)) \o << "CR", "LF" >>

\* C18: the final file comes into existence only by the rename of the temp
\* file after Sync and Close, and from then on it is never written: whenever
\* it exists it holds everything the call wrote, which for an input with a
\* terminator is the complete body.
FinalFileAtomic ==
    /\ [](finalFile # NoFile =>
              /\ synced /\ closed
              /\ tempFile = NoFile
              /\ ingestPc = "returned" /\ retErr = "nil"
              /\ Len(finalFile) = retSize
              /\ HasTerminator(input) => finalFile = ExpectedBody(input))
    /\ [][finalFile' # finalFile =>
              /\ finalFile = NoFile
              /\ ingestPc = "rename"
              /\ finalFile' = tempFile
              /\ tempFile' = NoFile]_vars

\* a two-byte body, which a first read of six bytes or more flushes in two
\* writes, is under its final name
WitnessFinalFileAtomic ==
    /\ finalFile = << "A", "A", "CR", "LF" >>
    /\ input = << "A", "A", "CR", "LF", "DOT", "CR", "LF" >>

\* C19: a message whose stored body, closing CR LF included, is exactly
\* max_message_size bytes is accepted (it fails only if the environment
\* fails), and one that is one byte larger is never accepted and is refused
\* with the size error; after a refusal neither file of the message is left.
SizeLimitBoundary ==
    (ingestPc = "returned" /\ maxMessageSize > 0 /\ HasTerminator(input)) =>
        /\ Len(ExpectedBody(input)) = maxMessageSize =>
              /\ retErr \in EnvErrors \cup {"nil"}
              /\ retErr = "nil" => finalFile = ExpectedBody(input)
        /\ Len(ExpectedBody(input)) = maxMessageSize + 1 =>
              /\ retErr \in EnvErrors \cup {"size"}
              /\ finalFile = NoFile
              /\ tempFile = NoFile

\* a message one byte over the limit was refused with the size error
WitnessSizeLimitBoundary ==
    /\ ingestPc = "returned"
    /\ maxMessageSize = 3
    /\ input = << "A", "A", "CR", "LF", "DOT", "CR", "LF" >>
    /\ retErr = "size"

NoTempFileAfterReturn ==
    ingestPc = "returned" =>
        /\ tempFile = NoFile
        /\ retErr # "nil" => finalFile = NoFile

\* the read timed out after part of the body had been written to the temp file
WitnessNoTempFileAfterReturn ==
    /\ ingestPc = "returned"
    /\ retErr = "timeout"
    /\ retSize > 0

\* C26: after DATA failed in the ingestor and was answered 451 the session is
\* no longer in state Data, and a MAIL FROM with a valid sender that follows
\* the 451 directly is accepted.
DataFailureRecovers ==
    /\ [](response = "451" => state # "Data")
    /\ [][(response = "451" /\ command'.verb = "MAIL" /\ command'.arg = "valid")
            => response' = "250"]_vars

\* C27: on a TCP and on a socket session alike, a MAIL FROM with a valid sender
\* that directly follows a completed DATA or an RSET is accepted.
MailAcceptedAfterReset ==
    [][(/\ Serving
        /\ command.verb \in {"DATA", "RSET"}
        /\ response = "250"
        /\ command'.verb = "MAIL"
        /\ command'.arg = "valid") => response' = "250"]_vars

\* C28: when the processor's context is cancelled while the message is being
\* delivered, the body file stays in processing/: no step moves it to
\* delivered/ or to failed/.
CancelledProcessorLeavesBody ==
    [][\A m \in Msgs :
          (/\ ctxDone
           /\ procPc[m] = "deliver"
           /\ dispatched[m] # {}
           /\ m \in spool["processing"]) => m \in spool'["processing"]]_vars

\* C29: once the context the caller passed to PublishMessage is cancelled, the
\* next retry attempt ends the call with an error and without a deposit.
PublishEndsOnCallerCancel ==
    [][\A m \in Msgs :
          (callCtxDone[m] /\ pc[m] = "retry" /\ pc'[m] # "retry")
             => (pc'[m] = "returned" /\ pubRes'[m] \in {"QueueClosed", "QueueFull"})]_vars

\* C30: no PublishMessage call sends on q.messageQueue after Stop has closed
\* it (the send on the closed channel is the one step that panics).
NoSendOnClosedChannel == ~panicked

(* ---------------- DeliverWithWorkers: one class, worker by worker ---------------- *)

\* the max_workers values a class is configured with; 0 stands for "not set"
ConfiguredMaxValues == {0, 1, 2}

\* GetMaxWorkers: the default when configuredMax is not positive
DefaultMaxWorkers == 10

\* GetMaxWorkers(configuredMax, recipientCount)
GetMaxWorkers(configured, recipientCount) ==
    LET mw == IF configured <= 0 THEN DefaultMaxWorkers ELSE configured
    IN  IF mw > recipientCount THEN recipientCount ELSE mw

\* processMessage is about to call DeliverWithWorkers for one class
DeliveryInit ==
    /\ classRecipients \in SUBSET DeliveryRecipients
    /\ configuredMax \in ConfiguredMaxValues
    /\ maxWorkers = 0
    /\ coordPc = "start"
    /\ pending = {}
    /\ workerSem = 0
    /\ worker = [r \in DeliveryRecipients |-> "none"]
    /\ deliverErr = [r \in DeliveryRecipients |-> "none"]
    /\ calls = [r \in DeliveryRecipients |-> 0]
    /\ outcomeChan = << >>
    /\ result = NoResult

\* the head of DeliverWithWorkers, called with GetMaxWorkers(configured,
\* len(recipients)): the empty result for no recipients, else maxWorkers is
\* capped by len(recipients) and sem and resultChan are made
DeliverWithWorkersBegin ==
    /\ coordPc = "start"
    /\ LET n  == Cardinality(classRecipients)
           mw == GetMaxWorkers(configuredMax, n)
       IN  IF n = 0
              THEN /\ coordPc' = "returned"
                   /\ UNCHANGED << maxWorkers, pending >>
              ELSE /\ maxWorkers' = IF mw > n THEN n ELSE mw
                   /\ pending' = classRecipients
                   /\ coordPc' = "launch"
    /\ UNCHANGED << classRecipients, configuredMax, workerSem, worker,
                    deliverErr, calls, outcomeChan, result >>
    /\ UNCHANGED << queueVars, spool, smtpVars, ingestVars, cacheVars, otherVars >>

\* a launch loop that starts the goroutine without acquiring sem
LaunchWorkerNoSem(r) ==
    /\ coordPc = "launch"
    /\ r \in pending
    /\ workerSem' = workerSem + 1
    /\ worker' = [worker EXCEPT ![r] = "spawned"]
    /\ pending' = pending \ {r}
    /\ coordPc' = IF pending' = {} THEN "collect" ELSE "launch"
    /\ UNCHANGED << classRecipients, configuredMax, maxWorkers, deliverErr,
                    calls, outcomeChan, result >>
    /\ UNCHANGED << queueVars, spool, smtpVars, ingestVars, cacheVars, otherVars >>

\* one turn of the launch loop: sem <- struct{}{} (blocks while sem is full),
\* then go func(recipient); after the last recipient the loop ends
LaunchWorker(r) ==
    /\ coordPc = "launch"
    /\ r \in pending
    /\ workerSem < maxWorkers
    /\ workerSem' = workerSem + 1
    /\ worker' = [worker EXCEPT ![r] = "spawned"]
    /\ pending' = pending \ {r}
    /\ coordPc' = IF pending' = {} THEN "collect" ELSE "launch"
    /\ UNCHANGED << classRecipients, configuredMax, maxWorkers, deliverErr,
                    calls, outcomeChan, result >>
    /\ UNCHANGED << queueVars, spool, smtpVars, ingestVars, cacheVars, otherVars >>

\* the goroutine calls deliverFunc(ctx, recipient)
WorkerStart(r) ==
    /\ worker[r] = "spawned"
    /\ worker' = [worker EXCEPT ![r] = "running"]
    /\ calls' = [calls EXCEPT ![r] = @ + 1]
    /\ UNCHANGED << classRecipients, configuredMax, maxWorkers, coordPc,
                    pending, workerSem, deliverErr, outcomeChan, result >>
    /\ UNCHANGED << queueVars, spool, smtpVars, ingestVars, cacheVars, otherVars >>

\* deliverFunc returns err
WorkerFinish(r, err) ==
    /\ worker[r] = "running"
    /\ worker' = [worker EXCEPT ![r] = "returned"]
    /\ deliverErr' = [deliverErr EXCEPT ![r] = err]
    /\ UNCHANGED << classRecipients, configuredMax, maxWorkers, coordPc,
                    pending, workerSem, calls, outcomeChan, result >>
    /\ UNCHANGED << queueVars, spool, smtpVars, ingestVars, cacheVars, otherVars >>

\* resultChan <- DeliveryOutcome{recipient, err == nil}; the channel holds
\* len(recipients) outcomes, so the send never blocks
WorkerSend(r) ==
    /\ worker[r] = "returned"
    /\ worker' = [worker EXCEPT ![r] = "sent"]
    /\ outcomeChan' = Append(outcomeChan,
                             [Recipient |-> r, Success |-> deliverErr[r] = "nil"])
    /\ UNCHANGED << classRecipients, configuredMax, maxWorkers, coordPc,
                    pending, workerSem, deliverErr, calls, result >>
    /\ UNCHANGED << queueVars, spool, smtpVars, ingestVars, cacheVars, otherVars >>

\* the deferred <-sem of the goroutine
WorkerRelease(r) ==
    /\ worker[r] = "sent"
    /\ worker' = [worker EXCEPT ![r] = "done"]
    /\ workerSem' = workerSem - 1
    /\ UNCHANGED << classRecipients, configuredMax, maxWorkers, coordPc,
                    pending, deliverErr, calls, outcomeChan, result >>
    /\ UNCHANGED << queueVars, spool, smtpVars, ingestVars, cacheVars, otherVars >>

\* a collect loop that files every outcome under Successful
CollectAllSuccessful ==
    /\ coordPc = "collect"
    /\ outcomeChan # << >>
    /\ LET outcome == Head(outcomeChan)
       IN  /\ result' = [result EXCEPT !.Successful = Append(@, outcome.Recipient)]
           /\ coordPc' = IF Len(result'.Successful) + Len(result'.Failed)
                               = Cardinality(classRecipients)
                            THEN "returned" ELSE "collect"
    /\ outcomeChan' = Tail(outcomeChan)
    /\ UNCHANGED << classRecipients, configuredMax, maxWorkers, pending,
                    workerSem, worker, deliverErr, calls >>
    /\ UNCHANGED << queueVars, spool, smtpVars, ingestVars, cacheVars, otherVars >>

\* one turn of the collect loop: outcome := <-resultChan, appended to
\* Successful or to Failed; after len(recipients) turns the result is returned
Collect ==
    /\ coordPc = "collect"
    /\ outcomeChan # << >>
    /\ LET outcome == Head(outcomeChan)
       IN  /\ result' = IF outcome.Success
                           THEN [result EXCEPT !.Successful = Append(@, outcome.Recipient)]
                           ELSE [result EXCEPT !.Failed = Append(@, outcome.Recipient)]
           /\ coordPc' = IF Len(result'.Successful) + Len(result'.Failed)
                               = Cardinality(classRecipients)
                            THEN "returned" ELSE "collect"
    /\ outcomeChan' = Tail(outcomeChan)
    /\ UNCHANGED << classRecipients, configuredMax, maxWorkers, pending,
                    workerSem, worker, deliverErr, calls >>
    /\ UNCHANGED << queueVars, spool, smtpVars, ingestVars, cacheVars, otherVars >>

DeliveryNext ==
    \/ DeliverWithWorkersBegin
    \/ \E r \in DeliveryRecipients : LaunchWorker(r)
    \/ \E r \in DeliveryRecipients : WorkerStart(r)
    \/ \E r \in DeliveryRecipients, err \in {"nil", "err"} : WorkerFinish(r, err)
    \/ \E r \in DeliveryRecipients : WorkerSend(r)
    \/ \E r \in DeliveryRecipients : WorkerRelease(r)
    \/ Collect

DeliverySpecInit ==
    QueueInit /\ SessionIdle /\ IngestIdle /\ DeliveryInit /\ CacheIdle /\ OtherIdle

DeliverySpec == DeliverySpecInit /\ [][DeliveryNext]_vars

\* the recipients whose delivery function is running
RunningDeliveries == {r \in DeliveryRecipients : worker[r] = "running"}

\* how often r occurs in the sequence s
Occurrences(s, r) == Cardinality({i \in 1..Len(s) : s[i] = r})

\* C22: the number of delivery functions running at the same time is at most
\* min(max_workers, number of recipients), max_workers being the configured
\* value or the default 10 when none is configured.
DeliveriesBounded ==
    LET mw == IF configuredMax <= 0 THEN 10 ELSE configuredMax
        n  == Cardinality(classRecipients)
    IN  Cardinality(RunningDeliveries) <= (IF mw < n THEN mw ELSE n)

\* two deliveries run, max_workers is 2, and a third recipient waits for a token
WitnessDeliveriesBounded ==
    /\ configuredMax = 2
    /\ Cardinality(RunningDeliveries) = 2
    /\ pending # {}

\* C23: when the coordinator has returned, the delivery function was invoked
\* exactly once for every recipient and for no one else, and every recipient
\* occurs exactly once in the result: in Successful if its delivery returned
\* nil, in Failed otherwise.
EveryRecipientOnce ==
    coordPc = "returned" =>
        \A r \in DeliveryRecipients :
            IF r \in classRecipients
               THEN /\ calls[r] = 1
                    /\ Occurrences(result.Successful, r)
                          = (IF deliverErr[r] = "nil" THEN 1 ELSE 0)
                    /\ Occurrences(result.Failed, r)
                          = (IF deliverErr[r] = "nil" THEN 0 ELSE 1)
               ELSE /\ calls[r] = 0
                    /\ Occurrences(result.Successful, r) = 0
                    /\ Occurrences(result.Failed, r) = 0

\* a returned call with three recipients of which some succeeded and some failed
WitnessEveryRecipientOnce ==
    /\ coordPc = "returned"
    /\ Cardinality(classRecipients) >= 3
    /\ result.Successful # << >>
    /\ result.Failed # << >>

(* ---------------- LRUCache ---------------- *)

\* the clock stops at MaxTime
MaxTime == 3

\* at most MaxOps Get and Put operations are followed
MaxOps == 4

\* capacities and TTLs the cache is built with
Capacities == {1, 2}
TTLs == {1, 2}

\* NewLRUCache(capacity, ttl)
CacheInit ==
    /\ capacity \in Capacities
    /\ ttl \in TTLs
    /\ items = << >>
    /\ lruList = << >>
    /\ hits = 0
    /\ misses = 0
    /\ now = 0
    /\ lastOp = NoOp
    /\ lastPut = [k \in CacheKeys |-> NoTime]
    /\ lastUse = [k \in CacheKeys |-> 0]
    /\ opCount = 0

\* the list l without key
ListRemove(l, key) == SelectSeq(l, LAMBDA k : k # key)

\* c.lruList.MoveToFront(entry.element), and PushFront for a new entry
MoveToFront(l, key) == << key >> \o ListRemove(l, key)

\* delete(c.items, key)
MapDelete(m, keys) == [k \in (DOMAIN m) \ keys |-> m[k]]

\* c.items[key] = entry
MapPut(m, key, entry) == [k \in (DOMAIN m) \cup {key} |-> IF k = key THEN entry ELSE m[k]]

\* time.Since(entry.timestamp) > c.ttl
Expired(entry) == now - entry.timestamp > ttl

\* Get without the TTL check
GetNoTTL(key) ==
    /\ opCount < MaxOps
    /\ opCount' = opCount + 1
    /\ IF key \notin DOMAIN items THEN
            /\ misses' = misses + 1
            /\ lastOp' = [op |-> "get", key |-> key, value |-> FALSE,
                          hit |-> FALSE, expired |-> FALSE, evicted |-> 0]
            /\ UNCHANGED << items, lruList, hits, lastUse >>
       ELSE /\ lruList' = MoveToFront(lruList, key)
            /\ hits' = hits + 1
            /\ lastUse' = [lastUse EXCEPT ![key] = opCount']
            /\ lastOp' = [op |-> "get", key |-> key, value |-> items[key].value,
                          hit |-> TRUE, expired |-> FALSE, evicted |-> 0]
            /\ UNCHANGED << items, misses >>
    /\ UNCHANGED << capacity, ttl, now, lastPut >>
    /\ UNCHANGED << queueVars, spool, smtpVars, ingestVars, deliveryVars, otherVars >>

\* Get that leaves the entry where it is in the list
GetNoMove(key) ==
    /\ opCount < MaxOps
    /\ opCount' = opCount + 1
    /\ IF key \notin DOMAIN items THEN
            /\ misses' = misses + 1
            /\ lastOp' = [op |-> "get", key |-> key, value |-> FALSE,
                          hit |-> FALSE, expired |-> FALSE, evicted |-> 0]
            /\ UNCHANGED << items, lruList, hits, lastUse >>
       ELSE IF Expired(items[key]) THEN
            /\ items' = MapDelete(items, {key})
            /\ lruList' = ListRemove(lruList, key)
            /\ misses' = misses + 1
            /\ lastOp' = [op |-> "get", key |-> key, value |-> FALSE,
                          hit |-> FALSE, expired |-> TRUE, evicted |-> 0]
            /\ UNCHANGED << hits, lastUse >>
       ELSE /\ hits' = hits + 1
            /\ lastUse' = [lastUse EXCEPT ![key] = opCount']
            /\ lastOp' = [op |-> "get", key |-> key, value |-> items[key].value,
                          hit |-> TRUE, expired |-> FALSE, evicted |-> 0]
            /\ UNCHANGED << items, lruList, misses >>
    /\ UNCHANGED << capacity, ttl, now, lastPut >>
    /\ UNCHANGED << queueVars, spool, smtpVars, ingestVars, deliveryVars, otherVars >>

\* LRUCache.Get(key): a miss for an absent key; an entry older than ttl is
\* removed and reported as a miss; else the entry moves to the front and
\* its value is returned
Get(key) ==
    /\ opCount < MaxOps
    /\ opCount' = opCount + 1
    /\ IF key \notin DOMAIN items THEN
            /\ misses' = misses + 1
            /\ lastOp' = [op |-> "get", key |-> key, value |-> FALSE,
                          hit |-> FALSE, expired |-> FALSE, evicted |-> 0]
            /\ UNCHANGED << items, lruList, hits, lastUse >>
       ELSE IF Expired(items[key]) THEN
            /\ items' = MapDelete(items, {key})
            /\ lruList' = ListRemove(lruList, key)
            /\ misses' = misses + 1
            /\ lastOp' = [op |-> "get", key |-> key, value |-> FALSE,
                          hit |-> FALSE, expired |-> TRUE, evicted |-> 0]
            /\ UNCHANGED << hits, lastUse >>
       ELSE /\ lruList' = MoveToFront(lruList, key)
            /\ hits' = hits + 1
            /\ lastUse' = [lastUse EXCEPT ![key] = opCount']
            /\ lastOp' = [op |-> "get", key |-> key, value |-> items[key].value,
                          hit |-> TRUE, expired |-> FALSE, evicted |-> 0]
            /\ UNCHANGED << items, misses >>
    /\ UNCHANGED << capacity, ttl, now, lastPut >>
    /\ UNCHANGED << queueVars, spool, smtpVars, ingestVars, deliveryVars, otherVars >>

\* LRUCache.Put(key, value): an existing entry gets the value and a new
\* timestamp and moves to the front; a new entry is pushed to the front and,
\* when len(c.items) > c.capacity, evictLRU removes the entry at the back
Put(key, value) ==
    /\ opCount < MaxOps
    /\ opCount' = opCount + 1
    /\ LET entry   == [value |-> value, timestamp |-> now]
           pushed  == MoveToFront(lruList, key)
           added   == MapPut(items, key, entry)
           oldest  == pushed[Len(pushed)]
           over    == key \notin DOMAIN items /\ Cardinality(DOMAIN added) > capacity
       IN  /\ items' = IF over THEN MapDelete(added, {oldest}) ELSE added
           /\ lruList' = IF over THEN ListRemove(pushed, oldest) ELSE pushed
           /\ lastOp' = [op |-> "put", key |-> key, value |-> value,
                         hit |-> FALSE, expired |-> FALSE,
                         evicted |-> IF over THEN oldest ELSE 0]
    /\ lastPut' = [lastPut EXCEPT ![key] = now]
    /\ lastUse' = [lastUse EXCEPT ![key] = opCount']
    /\ UNCHANGED << capacity, ttl, hits, misses, now >>
    /\ UNCHANGED << queueVars, spool, smtpVars, ingestVars, deliveryVars, otherVars >>

\* LRUCache.cleanup, run by cleanupRoutine on every tick of its ticker:
\* every entry older than ttl is removed
cleanup ==
    /\ LET old == {k \in DOMAIN items : Expired(items[k])}
       IN  /\ old # {}
           /\ items' = MapDelete(items, old)
           /\ lruList' = SelectSeq(lruList, LAMBDA k : k \notin old)
    /\ UNCHANGED << capacity, ttl, hits, misses, now, lastOp, lastPut,
                    lastUse, opCount >>
    /\ UNCHANGED << queueVars, spool, smtpVars, ingestVars, deliveryVars, otherVars >>

\* LRUCache.Clear
Clear ==
    /\ items' = << >>
    /\ lruList' = << >>
    /\ hits' = 0
    /\ misses' = 0
    /\ lastOp' = [op |-> "clear", key |-> 0, value |-> FALSE, hit |-> FALSE,
                  expired |-> FALSE, evicted |-> 0]
    /\ UNCHANGED << capacity, ttl, now, lastPut, lastUse, opCount >>
    /\ UNCHANGED << queueVars, spool, smtpVars, ingestVars, deliveryVars, otherVars >>

\* time passes
Advance ==
    /\ now < MaxTime
    /\ now' = now + 1
    /\ UNCHANGED << capacity, ttl, items, lruList, hits, misses, lastOp,
                    lastPut, lastUse, opCount >>
    /\ UNCHANGED << queueVars, spool, smtpVars, ingestVars, deliveryVars, otherVars >>

CacheNext ==
    \/ \E key \in CacheKeys : Get(key)
    \/ \E key \in CacheKeys, value \in BOOLEAN : Put(key, value)
    \/ cleanup
    \/ Clear
    \/ Advance

CacheSpecInit ==
    QueueInit /\ SessionIdle /\ IngestIdle /\ DeliveryIdle /\ CacheInit /\ OtherIdle

CacheSpec == CacheSpecInit /\ [][CacheNext]_vars

\* the step is a Get of key
GetStep(key) ==
    /\ opCount' = opCount + 1
    /\ lastOp'.op = "get"
    /\ lastOp'.key = key

\* the step is a Put of key
PutStep(key) ==
    /\ opCount' = opCount + 1
    /\ lastOp'.op = "put"
    /\ lastOp'.key = key

CapacityAndLRU ==
    /\ [](Cardinality(DOMAIN items) <= capacity)
    /\ [][\A k \in CacheKeys :
            (/\ PutStep(k)
             /\ k \notin DOMAIN items
             /\ Cardinality(DOMAIN items) = capacity) =>
                \E e \in DOMAIN items :
                   /\ \A o \in DOMAIN items : lastUse[e] <= lastUse[o]
                   /\ DOMAIN items' = ((DOMAIN items) \cup {k}) \ {e}]_vars

\* a Put evicted an entry that was put after an entry that stays: the one
\* that stays had been used by a Get since
WitnessCapacityAndLRU ==
    /\ lastOp # NoOp
    /\ lastOp.op = "put"
    /\ lastOp.evicted # 0
    /\ \E o \in DOMAIN items :
          /\ o # lastOp.key
          /\ lastUse[o] > lastUse[lastOp.evicted]
          /\ hits > 0

(* ---------------- further properties of the queue ---------------- *)

\* the directories that hold the body of m
BodyDirs(sp, m) == {d \in MessageStates : m \in sp[d]}

\* C31: a processor starts its deliveries only with the body in processing/;
\* when it returns from a failed move into processing/ the spool is as before
\* and no delivery was started; when it returns with the body in neither
\* delivered/ nor failed/ the body is still in processing/; every return
\* frees one semaphore slot, and a returned processor moves the body no more.
MoveFailureStops ==
    [][\A m \in Msgs :
          /\ (procPc[m] = "start" /\ procPc'[m] = "deliver")
                => m \in spool'["processing"]
          /\ (procPc[m] = "start" /\ procPc'[m] = "done")
                => (spool' = spool /\ sem' = sem - 1 /\ resultChan[m] = {})
          /\ (/\ procPc[m] = "deliver"
              /\ procPc'[m] = "done"
              /\ m \notin spool'["delivered"] \cup spool'["failed"])
                => (spool' = spool /\ m \in spool["processing"] /\ sem' = sem - 1)
          /\ procPc[m] = "done" => BodyDirs(spool', m) = BodyDirs(spool, m)]_vars

\* one processor has returned from a failed move into processing/, another
\* from a failed final move
WitnessMoveFailureStops ==
    \E m1, m2 \in Msgs :
       /\ procPc[m1] = "done" /\ BodyDirs(spool, m1) = {"incoming"}
       /\ procPc[m2] = "done" /\ BodyDirs(spool, m2) = {"processing"}

\* C32: once Stop has returned, with nil or with the deadline error, no
\* processor is started any more.
NoProcessorAfterStop ==
    [][(stopPc \in {"stopped", "deadline"}) =>
          (\A m \in Msgs : procPc'[m] = "start" => procPc[m] = "start")]_vars

\* Stop has returned while a deposited message is still in the buffer: the
\* consumer loop had left on the cancelled context
WitnessNoProcessorAfterStop ==
    /\ stopPc \in {"stopped", "deadline"}
    /\ Len(messageQueue) > 0
    /\ consumerPc = "cancelled"

(* ---------------- further properties of the session ---------------- *)

\* C33: when MAIL FROM is rejected for a syntax or validation error, no
\* Message is left behind: the session has no current message and is in the
\* state it was in before the command.
RejectedMailLeavesNoMessage ==
    [][(command'.verb = "MAIL" /\ response' \in {"500", "501", "550"})
          => (currentMessage' = NoMessage /\ state' = state)]_vars

\* C34: on a TCP session MAIL FROM is accepted only after a HELO or EHLO of
\* this session succeeded; before that (right after the 220 greeting, or
\* after any other command) it is answered 503.
MailNeedsHello ==
    [][(connType = "tcp" /\ command'.verb = "MAIL" /\ clientHelloHostname = "")
          => response' = "503"]_vars

\* C35 as stated: an AUTH outside (Greeted and not yet authenticated) is
\* answered 503 and changes nothing.
AuthElsewhereIs503 ==
    [][(command'.verb = "AUTH" /\ ~(state = "Greeted" /\ ~authenticated))
          => (response' = "503" /\ UNCHANGED << state, authenticated >>)]_vars

\* C35, corrected: the authenticator is consulted (235 or 535) only in state
\* Greeted while the session is not authenticated; any other AUTH is
\* answered 503, or 501 when it names no mechanism, and changes nothing; a
\* session that is authenticated stays so, so 235 is sent at most once.
AuthOnlyWhenGreeted ==
    [][/\ (command'.verb = "AUTH" /\ ~(state = "Greeted" /\ ~authenticated))
          => /\ response' \in {"503", "501"}
             /\ response' = "501" => command'.arg = "missing"
             /\ UNCHANGED << state, authenticated >>
       /\ (command'.verb = "AUTH" /\ response' \in {"235", "535"} /\ command' # command)
          => (state = "Greeted" /\ ~authenticated)
       /\ authenticated => authenticated']_vars

\* an authenticated TCP session sent AUTH again and was answered 503
WitnessAuthOnlyWhenGreeted ==
    /\ connType = "tcp"
    /\ authenticated
    /\ command = [verb |-> "AUTH", arg |-> "good"]
    /\ response = "503"

(* ---------------- further properties of the ingestor ---------------- *)

\* the call ended at the end of an input without terminator: it returned, and
\* not with an error of the environment or of the size limit
EndedAtEOF ==
    /\ ingestPc = "returned"
    /\ ~HasTerminator(input)
    /\ retErr \in {"nil", "empty"}

\* C37 as stated: when the input ends before a terminator the call returns
\* nil, the final file holds the bytes received, and the returned count is
\* the length of that file.
EOFKeepsReceived ==
    EndedAtEOF => /\ retErr = "nil"
                  /\ finalFile = input
                  /\ retSize = Len(finalFile)

\* C37, corrected: when the input ends before a terminator and is longer than
\* the terminator, the call returns nil and the final file holds the bytes
\* received except the last five, with the returned count the length of that
\* file; when the input is no longer than the terminator nothing was written,
\* the call fails as an empty message and leaves no file.
EOFKeepsWritten ==
    EndedAtEOF =>
        IF Len(input) > Len(terminator)
           THEN /\ retErr = "nil"
                /\ finalFile = Prefix(input, Len(input) - Len(terminator))
                /\ retSize = Len(finalFile)
                /\ tempFile = NoFile
           ELSE /\ retErr = "empty"
                /\ retSize = 0
                /\ finalFile = NoFile
                /\ tempFile = NoFile

\* a seven-byte input without terminator was stored as its first two bytes
WitnessEOFKeepsWritten ==
    /\ EndedAtEOF
    /\ Len(input) = 7
    /\ retErr = "nil"
    /\ finalFile = Prefix(input, 2)

(***************************************************************************)
(* The retry loop of PublishMessage (internal/queue/queue.go) with its     *)
(* configuration: the three durations of config.Queue, in units of 100 ms, *)
(* the fallbacks for zero values, and the sequence of sleeps.              *)
(***************************************************************************)

\* largest configured retry delay and maximum retry delay
MaxConfigDelay == 3

\* the fallbacks: 100 ms, 1 s, 5 s
DefaultRetryDelay == 1

DefaultMaxRetryDelay == 10

DefaultPublishTimeout == 50

\* config.Queue.RetryDelay and MaxRetryDelay: 0 is "not set"; the loader does
\* not compare the two
RetryDelays == 0..MaxConfigDelay

MaxRetryDelays == 0..MaxConfigDelay

\* config.Queue.PublishTimeout
PublishTimeouts == {0, MaxConfigDelay, 3 * MaxConfigDelay}

\* a PublishMessage call finds the buffer full and reaches its retry logic
BackoffInit ==
    /\ cfgRetryDelay \in RetryDelays
    /\ cfgMaxRetryDelay \in MaxRetryDelays
    /\ cfgPublishTimeout \in PublishTimeouts
    /\ backoffPc = "start"
    /\ delay = 0
    /\ maxDelay = 0
    /\ totalTimeout = 0
    /\ sinceStart = 0
    /\ waits = << >>

\* the three durations are read, zero values replaced by the fallbacks
RetryBegin ==
    /\ backoffPc = "start"
    /\ delay' = IF cfgRetryDelay = 0 THEN DefaultRetryDelay ELSE cfgRetryDelay
    /\ maxDelay' = IF cfgMaxRetryDelay = 0 THEN DefaultMaxRetryDelay
                                           ELSE cfgMaxRetryDelay
    /\ totalTimeout' = IF cfgPublishTimeout = 0 THEN DefaultPublishTimeout
                                                ELSE cfgPublishTimeout
    /\ backoffPc' = "loop"
    /\ UNCHANGED << cfgRetryDelay, cfgMaxRetryDelay, cfgPublishTimeout,
                    sinceStart, waits >>
    /\ UNCHANGED << queueVars, spool, smtpVars, ingestVars, deliveryVars,
                    cacheVars >>
    /\ UNCHANGED << connVars, validatorVars, sweeperVars >>

\* the head of the loop: the timeout check, then time.Sleep(retryDelay)
RetrySleep ==
    /\ backoffPc = "loop"
    /\ IF sinceStart >= totalTimeout
          THEN /\ backoffPc' = "ErrQueueFull"
               /\ UNCHANGED << sinceStart, waits >>
          ELSE /\ waits' = Append(waits, delay)
               /\ sinceStart' = sinceStart + delay
               /\ backoffPc' = "select"
    /\ UNCHANGED << cfgRetryDelay, cfgMaxRetryDelay, cfgPublishTimeout,
                    delay, maxDelay, totalTimeout >>
    /\ UNCHANGED << queueVars, spool, smtpVars, ingestVars, deliveryVars,
                    cacheVars >>
    /\ UNCHANGED << connVars, validatorVars, sweeperVars >>

\* the select after the sleep.  ready: "sent" (the buffer took the message),
\* "closed" (publisherCtx is done) or "full" (the default branch, which
\* increases the delay for the next turn)
RetrySelect(ready) ==
    /\ backoffPc = "select"
    /\ IF ready = "sent" THEN
            /\ backoffPc' = "nil"
            /\ UNCHANGED delay
       ELSE IF ready = "closed" THEN
            /\ backoffPc' = "ErrQueueClosed"
            /\ UNCHANGED delay
       ELSE /\ backoffPc' = "loop"
            /\ delay' = IF delay < maxDelay
                           THEN (IF delay * 2 > maxDelay THEN maxDelay ELSE delay * 2)
                           ELSE delay
    /\ UNCHANGED << cfgRetryDelay, cfgMaxRetryDelay, cfgPublishTimeout,
                    maxDelay, totalTimeout, sinceStart, waits >>
    /\ UNCHANGED << queueVars, spool, smtpVars, ingestVars, deliveryVars,
                    cacheVars >>
    /\ UNCHANGED << connVars, validatorVars, sweeperVars >>

BackoffNext ==
    \/ RetryBegin
    \/ RetrySleep
    \/ \E ready \in {"sent", "closed", "full"} : RetrySelect(ready)

BackoffSpecInit ==
    QueueInit /\ SessionIdle /\ IngestIdle /\ DeliveryIdle /\ CacheIdle
        /\ BackoffInit /\ ServerIdle /\ ValidatorIdle /\ SweeperIdle

BackoffSpec == BackoffSpecInit /\ [][BackoffNext]_vars

(* ---------------- properties of the retry loop ---------------- *)

\* retry_delay and max_retry_delay as the call uses them
EffectiveRetryDelay ==
    IF cfgRetryDelay = 0 THEN DefaultRetryDelay ELSE cfgRetryDelay

EffectiveMaxRetryDelay ==
    IF cfgMaxRetryDelay = 0 THEN DefaultMaxRetryDelay ELSE cfgMaxRetryDelay

\* C38: the waits of a publish that keeps finding the buffer full are
\* retry_delay, 2 * retry_delay, 4 * retry_delay, ..., each capped at
\* max_retry_delay (the first is retry_delay capped, each later one is twice
\* its predecessor capped), so no wait is longer than max_retry_delay.
WaitsDoubleUpToMax ==
    \A i \in 1..Len(waits) :
        /\ waits[i] = IF i = 1
                         THEN Min(EffectiveRetryDelay, EffectiveMaxRetryDelay)
                         ELSE Min(2 * waits[i - 1], EffectiveMaxRetryDelay)
        /\ waits[i] <= EffectiveMaxRetryDelay

(***************************************************************************)
(* Connection tracking of the TCP server (internal/server/tcp.go): the     *)
(* accept loop, which checks the limits and tracks a connection before it  *)
(* starts the handler, and the handlers, which untrack when they return.   *)
(* Each Load, LoadOrStore, Delete and atomic operation is one step.        *)
(***************************************************************************)

\* config.Server.MaxConnections and MaxConnectionsPerIP
MaxConnections == 2

MaxConnectionsPerIP == 1

\* the counters something still points to
Referenced ==
    {ipConnections[ip] : ip \in IPs} \cup {acceptVal}
        \cup {conn[c].val : c \in ConnSlots}

\* new(int64)
NewCounter == CHOOSE p \in Counters \ Referenced :
                 \A q \in Counters \ Referenced : p <= q

\* the slot the next handler goroutine takes
NextSlot == CHOOSE c \in ConnSlots :
               /\ conn[c].pc = "free"
               /\ \A d \in ConnSlots : conn[d].pc = "free" => c <= d

\* the server is listening, nothing is connected
ServerInit ==
    /\ totalConnections = 0
    /\ ipConnections = [ip \in IPs |-> NoCounter]
    /\ counter = [p \in Counters |-> 0]
    /\ acceptPc = "accept"
    /\ acceptIP = UnknownClientIP
    /\ acceptVal = NoCounter
    /\ conn = [c \in ConnSlots |-> FreeSlot]

\* the accept loop goes back to listener.Accept()
BackToAccept ==
    /\ acceptPc' = "accept"
    /\ acceptIP' = UnknownClientIP
    /\ acceptVal' = NoCounter

\* acceptLoop: listener.Accept() returns a connection from ip
Accept(ip) ==
    /\ acceptPc = "accept"
    /\ \E c \in ConnSlots : conn[c].pc = "free"
    /\ acceptIP' = ip
    /\ acceptPc' = "canAccept"
    /\ UNCHANGED << totalConnections, ipConnections, counter, acceptVal, conn >>
    /\ UNCHANGED << queueVars, spool, smtpVars, ingestVars, deliveryVars,
                    cacheVars, backoffVars, validatorVars, sweeperVars >>

\* canAcceptConnection: the unknown address and the total limit
CanAcceptTotal ==
    /\ acceptPc = "canAccept"
    /\ IF acceptIP = UnknownClientIP \/ totalConnections >= MaxConnections
          THEN BackToAccept
          ELSE acceptPc' = "countLoad" /\ UNCHANGED << acceptIP, acceptVal >>
    /\ UNCHANGED << totalConnections, ipConnections, counter, conn >>
    /\ UNCHANGED << queueVars, spool, smtpVars, ingestVars, deliveryVars,
                    cacheVars, backoffVars, validatorVars, sweeperVars >>

\* getIPConnectionCount: ipConnections.Load(ip); an absent key counts 0
GetIPConnectionCountLoad ==
    /\ acceptPc = "countLoad"
    /\ acceptVal' = ipConnections[acceptIP]
    /\ acceptPc' = IF ipConnections[acceptIP] = NoCounter
                      THEN (IF 0 >= MaxConnectionsPerIP THEN "accept" ELSE "track")
                      ELSE "countRead"
    /\ UNCHANGED << totalConnections, ipConnections, counter, acceptIP, conn >>
    /\ UNCHANGED << queueVars, spool, smtpVars, ingestVars, deliveryVars,
                    cacheVars, backoffVars, validatorVars, sweeperVars >>

\* getIPConnectionCount: atomic.LoadInt64(val), and the per-IP limit
GetIPConnectionCountRead ==
    /\ acceptPc = "countRead"
    /\ IF counter[acceptVal] >= MaxConnectionsPerIP
          THEN BackToAccept
          ELSE /\ acceptPc' = "track"
               /\ acceptVal' = NoCounter
               /\ UNCHANGED acceptIP
    /\ UNCHANGED << totalConnections, ipConnections, counter, conn >>
    /\ UNCHANGED << queueVars, spool, smtpVars, ingestVars, deliveryVars,
                    cacheVars, backoffVars, validatorVars, sweeperVars >>

\* trackConnection: atomic.AddInt64(&srv.totalConnections, 1)
TrackConnection ==
    /\ acceptPc = "track"
    /\ totalConnections' = totalConnections + 1
    /\ acceptPc' = "loadOrStore"
    /\ UNCHANGED << ipConnections, counter, acceptIP, acceptVal, conn >>
    /\ UNCHANGED << queueVars, spool, smtpVars, ingestVars, deliveryVars,
                    cacheVars, backoffVars, validatorVars, sweeperVars >>

\* incrementIPConnection: ipConnections.LoadOrStore(ip, new(int64))
IncrementLoadOrStore ==
    /\ acceptPc = "loadOrStore"
    /\ IF ipConnections[acceptIP] = NoCounter
          THEN /\ ipConnections' = [ipConnections EXCEPT ![acceptIP] = NewCounter]
               /\ counter' = [counter EXCEPT ![NewCounter] = 0]
               /\ acceptVal' = NewCounter
          ELSE /\ acceptVal' = ipConnections[acceptIP]
               /\ UNCHANGED << ipConnections, counter >>
    /\ acceptPc' = "add"
    /\ UNCHANGED << totalConnections, acceptIP, conn >>
    /\ UNCHANGED << queueVars, spool, smtpVars, ingestVars, deliveryVars,
                    cacheVars, backoffVars, validatorVars, sweeperVars >>

\* incrementIPConnection: atomic.AddInt64(val, 1); then the handler
\* goroutine is started and the loop goes back to Accept
IncrementAdd ==
    /\ acceptPc = "add"
    /\ counter' = [counter EXCEPT ![acceptVal] = @ + 1]
    /\ conn' = [conn EXCEPT ![NextSlot] =
                    [pc |-> "open", ip |-> acceptIP, val |-> NoCounter]]
    /\ BackToAccept
    /\ UNCHANGED << totalConnections, ipConnections >>
    /\ UNCHANGED << queueVars, spool, smtpVars, ingestVars, deliveryVars,
                    cacheVars, backoffVars, validatorVars, sweeperVars >>

\* handleConnection returns; untrackConnection: AddInt64(&totalConnections, -1)
UntrackConnection(c) ==
    /\ conn[c].pc = "open"
    /\ totalConnections' = totalConnections - 1
    /\ conn' = [conn EXCEPT ![c].pc = "decLoad"]
    /\ UNCHANGED << ipConnections, counter, acceptPc, acceptIP, acceptVal >>
    /\ UNCHANGED << queueVars, spool, smtpVars, ingestVars, deliveryVars,
                    cacheVars, backoffVars, validatorVars, sweeperVars >>

\* decrementIPConnection: ipConnections.Load(ip)
DecrementLoad(c) ==
    /\ conn[c].pc = "decLoad"
    /\ conn' = [conn EXCEPT ![c] =
                    IF ipConnections[conn[c].ip] = NoCounter
                       THEN FreeSlot
                       ELSE [pc |-> "decAdd", ip |-> conn[c].ip,
                             val |-> ipConnections[conn[c].ip]]]
    /\ UNCHANGED << totalConnections, ipConnections, counter, acceptPc,
                    acceptIP, acceptVal >>
    /\ UNCHANGED << queueVars, spool, smtpVars, ingestVars, deliveryVars,
                    cacheVars, backoffVars, validatorVars, sweeperVars >>

\* decrementIPConnection: newCount := atomic.AddInt64(val, -1)
DecrementAdd(c) ==
    /\ conn[c].pc = "decAdd"
    /\ counter' = [counter EXCEPT ![conn[c].val] = @ - 1]
    /\ conn' = [conn EXCEPT ![c] =
                    IF counter[conn[c].val] - 1 <= 0
                       THEN [pc |-> "decDelete", ip |-> conn[c].ip, val |-> NoCounter]
                       ELSE FreeSlot]
    /\ UNCHANGED << totalConnections, ipConnections, acceptPc, acceptIP,
                    acceptVal >>
    /\ UNCHANGED << queueVars, spool, smtpVars, ingestVars, deliveryVars,
                    cacheVars, backoffVars, validatorVars, sweeperVars >>

\* decrementIPConnection: ipConnections.Delete(ip)
DecrementDelete(c) ==
    /\ conn[c].pc = "decDelete"
    /\ ipConnections' = [ipConnections EXCEPT ![conn[c].ip] = NoCounter]
    /\ conn' = [conn EXCEPT ![c] = FreeSlot]
    /\ UNCHANGED << totalConnections, counter, acceptPc, acceptIP, acceptVal >>
    /\ UNCHANGED << queueVars, spool, smtpVars, ingestVars, deliveryVars,
                    cacheVars, backoffVars, validatorVars, sweeperVars >>

ServerNext ==
    \/ \E ip \in IPs \cup {UnknownClientIP} : Accept(ip)
    \/ CanAcceptTotal
    \/ GetIPConnectionCountLoad
    \/ GetIPConnectionCountRead
    \/ TrackConnection
    \/ IncrementLoadOrStore
    \/ IncrementAdd
    \/ \E c \in ConnSlots :
          \/ UntrackConnection(c)
          \/ DecrementLoad(c)
          \/ DecrementAdd(c)
          \/ DecrementDelete(c)

ServerSpecInit ==
    QueueInit /\ SessionIdle /\ IngestIdle /\ DeliveryIdle /\ CacheIdle
        /\ BackoffIdle /\ ServerInit /\ ValidatorIdle /\ SweeperIdle

ServerSpec == ServerSpecInit /\ [][ServerNext]_vars

(* ---------------- properties of the connection tracking ---------------- *)

\* getIPConnectionCount(ip)
GetIPConnectionCount(ip) ==
    IF ipConnections[ip] = NoCounter THEN 0 ELSE counter[ipConnections[ip]]

\* the tracked connections from ip whose handler is running
OpenConnections(ip) == {c \in ConnSlots : conn[c].pc = "open" /\ conn[c].ip = ip}

\* a handler of a connection from ip is inside untrackConnection
Untracking(ip) ==
    \E c \in ConnSlots :
       conn[c].ip = ip /\ conn[c].pc \in {"decLoad", "decAdd", "decDelete"}

\* C36: whenever no handler of an IP is in the middle of untracking, the
\* counter found in the map for that IP equals the number of its open
\* tracked connections; and at no time are more than max_connections_per_ip
\* connections from one IP open.
PerIPCounterExact ==
    \A ip \in IPs :
       /\ ~Untracking(ip) => GetIPConnectionCount(ip) = Cardinality(OpenConnections(ip))
       /\ Cardinality(OpenConnections(ip)) <= MaxConnectionsPerIP

(***************************************************************************)
(* The recipient validator (RcptValidator in internal/smtp/cache.go): one  *)
(* validator of one session with its system-user cache and its virtual-    *)
(* user cache, the lookups behind them, the sweepers and the clock.  A     *)
(* session validates one recipient at a time.                              *)
(***************************************************************************)

\* number of IsRecipientValid calls followed
MaxChecks == 3

\* time.Since(entry.timestamp) > c.ttl, for a cache of the validator
EntryExpired(entry) == clock - entry.timestamp > rvTTL

\* LRUCache.Get(key) on cache c: the cache afterwards, found and value
CacheGet(c, key) ==
    IF key \notin DOMAIN c.items THEN
        [cache |-> c, found |-> FALSE, value |-> FALSE, stamp |-> NoTime]
    ELSE IF EntryExpired(c.items[key]) THEN
        [cache |-> [items |-> MapDelete(c.items, {key}),
                    lruList |-> ListRemove(c.lruList, key)],
         found |-> FALSE, value |-> FALSE, stamp |-> NoTime]
    ELSE [cache |-> [items |-> c.items, lruList |-> MoveToFront(c.lruList, key)],
          found |-> TRUE, value |-> c.items[key].value,
          stamp |-> c.items[key].timestamp]

\* LRUCache.Put(key, value) on cache c: the cache afterwards and the key
\* evictLRU removed, 0 if none
CachePut(c, key, value) ==
    LET entry  == [value |-> value, timestamp |-> clock]
        pushed == MoveToFront(c.lruList, key)
        added  == MapPut(c.items, key, entry)
        oldest == pushed[Len(pushed)]
        over   == key \notin DOMAIN c.items /\ Cardinality(DOMAIN added) > rvCapacity
    IN  IF over
           THEN [cache |-> [items |-> MapDelete(added, {oldest}),
                            lruList |-> ListRemove(pushed, oldest)],
                 evicted |-> oldest]
           ELSE [cache |-> [items |-> added, lruList |-> pushed], evicted |-> 0]

\* the cache IsRecipientValid uses for a class
CacheOf(type) == IF type = "local" THEN systemCache ELSE virtualCache

\* NewRcptValidator: two empty caches
ValidatorInit ==
    /\ systemCache = EmptyCache
    /\ virtualCache = EmptyCache
    /\ rvCapacity \in Capacities
    /\ rvTTL \in TTLs
    /\ clock = 0
    /\ rvPc = "idle"
    /\ rvType = "none"
    /\ rvKey = 0
    /\ rvChecks = 0
    /\ rvAnswer = FALSE
    /\ lastCheck = [t \in CachedTypes |-> [k \in RcptKeys |-> NoCheck]]
    /\ evictedSince = [t \in CachedTypes |-> [k \in RcptKeys |-> FALSE]]

\* a check of a cached class returns
Returns(type, key, answer, consulted, stamp) ==
    /\ rvPc' = "idle"
    /\ rvChecks' = rvChecks + 1
    /\ rvAnswer' = answer
    /\ lastCheck' = [lastCheck EXCEPT ![type][key] =
                        [time |-> clock, answer |-> answer,
                         consulted |-> consulted, stamp |-> stamp]]

\* IsRecipientValid up to the cache lookup: relay is accepted, external is
\* refused, local and virtual are answered from the cache on a hit and go on
\* to the lookup on a miss
IsRecipientValid(type, key) ==
    /\ rvPc = "idle"
    /\ rvChecks < MaxChecks
    /\ rvType' = type
    /\ rvKey' = key
    /\ IF type \notin CachedTypes THEN
            /\ rvAnswer' = (type = "relay")
            /\ rvChecks' = rvChecks + 1
            /\ UNCHANGED << systemCache, virtualCache, rvPc, lastCheck, evictedSince >>
       ELSE LET g == CacheGet(CacheOf(type), key)
            IN  /\ systemCache' = IF type = "local" THEN g.cache ELSE systemCache
                /\ virtualCache' = IF type = "virtual" THEN g.cache ELSE virtualCache
                /\ IF g.found
                      THEN /\ Returns(type, key, g.value, FALSE, g.stamp)
                           /\ evictedSince' = [evictedSince EXCEPT ![type][key] = FALSE]
                      ELSE /\ rvPc' = "lookup"
                           /\ UNCHANGED << rvChecks, rvAnswer, lastCheck, evictedSince >>
    /\ UNCHANGED << rvCapacity, rvTTL, clock >>
    /\ UNCHANGED << queueVars, spool, smtpVars, ingestVars, deliveryVars,
                    cacheVars, backoffVars, connVars, sweeperVars >>

\* a lookup that caches positive outcomes only
LookupReturnsNoNegative(exists) ==
    /\ rvPc = "lookup"
    /\ LET p == IF exists THEN CachePut(CacheOf(rvType), rvKey, exists)
                          ELSE [cache |-> CacheOf(rvType), evicted |-> 0]
       IN  /\ systemCache' = IF rvType = "local" THEN p.cache ELSE systemCache
           /\ virtualCache' = IF rvType = "virtual" THEN p.cache ELSE virtualCache
           /\ evictedSince' =
                 [evictedSince EXCEPT ![rvType] =
                    [k \in RcptKeys |-> IF k = rvKey THEN FALSE
                                        ELSE IF k = p.evicted THEN TRUE
                                        ELSE evictedSince[rvType][k]]]
    /\ Returns(rvType, rvKey, exists, TRUE, clock)
    /\ UNCHANGED << rvCapacity, rvTTL, clock, rvType, rvKey >>
    /\ UNCHANGED << queueVars, spool, smtpVars, ingestVars, deliveryVars,
                    cacheVars, backoffVars, connVars, sweeperVars >>

\* the collaborator answers (user.Lookup for a system user,
\* authenticator.ValidateUser for a virtual user): the outcome is cached
\* and returned
LookupReturns(exists) ==
    /\ rvPc = "lookup"
    /\ LET p == CachePut(CacheOf(rvType), rvKey, exists)
       IN  /\ systemCache' = IF rvType = "local" THEN p.cache ELSE systemCache
           /\ virtualCache' = IF rvType = "virtual" THEN p.cache ELSE virtualCache
           /\ evictedSince' =
                 [evictedSince EXCEPT ![rvType] =
                    [k \in RcptKeys |-> IF k = rvKey THEN FALSE
                                        ELSE IF k = p.evicted THEN TRUE
                                        ELSE evictedSince[rvType][k]]]
    /\ Returns(rvType, rvKey, exists, TRUE, clock)
    /\ UNCHANGED << rvCapacity, rvTTL, clock, rvType, rvKey >>
    /\ UNCHANGED << queueVars, spool, smtpVars, ingestVars, deliveryVars,
                    cacheVars, backoffVars, connVars, sweeperVars >>

\* IsSystemUserEmailValid: lookupCtx is done before the lookup answers (the
\* two seconds passed, or the session's context was cancelled): false is
\* returned and nothing is cached
LookupTimeout ==
    /\ rvPc = "lookup"
    /\ rvType = "local"
    /\ Returns(rvType, rvKey, FALSE, TRUE, NoTime)
    /\ evictedSince' = [evictedSince EXCEPT ![rvType][rvKey] = FALSE]
    /\ UNCHANGED << systemCache, virtualCache, rvCapacity, rvTTL, clock,
                    rvType, rvKey >>
    /\ UNCHANGED << queueVars, spool, smtpVars, ingestVars, deliveryVars,
                    cacheVars, backoffVars, connVars, sweeperVars >>

\* LRUCache.cleanup of one of the two caches, run by its cleanupRoutine
ValidatorCleanup(type) ==
    /\ LET c == CacheOf(type)
           old == {k \in DOMAIN c.items : EntryExpired(c.items[k])}
           swept == [items |-> MapDelete(c.items, old),
                     lruList |-> SelectSeq(c.lruList, LAMBDA k : k \notin old)]
       IN  /\ old # {}
           /\ systemCache' = IF type = "local" THEN swept ELSE systemCache
           /\ virtualCache' = IF type = "virtual" THEN swept ELSE virtualCache
    /\ UNCHANGED << rvCapacity, rvTTL, clock, rvPc, rvType, rvKey, rvChecks,
                    rvAnswer, lastCheck, evictedSince >>
    /\ UNCHANGED << queueVars, spool, smtpVars, ingestVars, deliveryVars,
                    cacheVars, backoffVars, connVars, sweeperVars >>

\* time passes
ClockTick ==
    /\ clock < MaxTime
    /\ clock' = clock + 1
    /\ UNCHANGED << systemCache, virtualCache, rvCapacity, rvTTL, rvPc, rvType,
                    rvKey, rvChecks, rvAnswer, lastCheck, evictedSince >>
    /\ UNCHANGED << queueVars, spool, smtpVars, ingestVars, deliveryVars,
                    cacheVars, backoffVars, connVars, sweeperVars >>

ValidatorNext ==
    \/ \E type \in {"local", "virtual", "relay", "external"}, key \in RcptKeys :
          IsRecipientValid(type, key)
    \/ \E exists \in BOOLEAN : LookupReturns(exists)
    \/ LookupTimeout
    \/ \E type \in CachedTypes : ValidatorCleanup(type)
    \/ ClockTick

ValidatorSpecInit ==
    QueueInit /\ SessionIdle /\ IngestIdle /\ DeliveryIdle /\ CacheIdle
        /\ BackoffIdle /\ ServerIdle /\ ValidatorInit /\ SweeperIdle

ValidatorSpec == ValidatorSpecInit /\ [][ValidatorNext]_vars

(* ---------------- properties of the recipient validator ---------------- *)

\* the step begins a check of a cached class while the cache holds an
\* unexpired entry for the key
BeginsWithEntry ==
    /\ rvPc = "idle"
    /\ (rvPc' = "lookup" \/ rvChecks' = rvChecks + 1)
    /\ rvType' \in CachedTypes
    /\ rvKey' \in DOMAIN CacheOf(rvType').items
    /\ ~EntryExpired(CacheOf(rvType').items[rvKey'])

\* the step ends a check of a cached class
CheckReturns == rvChecks' = rvChecks + 1 /\ rvType' \in CachedTypes

\* the cache of a class after the step
CacheOfNext(type) == IF type = "local" THEN systemCache' ELSE virtualCache'

\* C39 as stated: a check answers from the cache when an unexpired entry
\* exists; otherwise the collaborator is asked and its outcome is in the
\* cache when the check returns; and of two successive checks of one address
\* no more than the TTL apart, with no eviction of its key in between, the
\* second returns the answer of the first and at most one of them asked the
\* collaborator.
ChecksAnswerFromCache ==
    [][/\ BeginsWithEntry =>
             /\ rvChecks' = rvChecks + 1
             /\ rvAnswer' = CacheOf(rvType').items[rvKey'].value
       /\ CheckReturns =>
             LET prev == lastCheck[rvType'][rvKey']
                 cur  == lastCheck'[rvType'][rvKey']
             IN  /\ cur.consulted =>
                       /\ rvKey' \in DOMAIN CacheOfNext(rvType').items
                       /\ CacheOfNext(rvType').items[rvKey'].value = cur.answer
                 /\ (/\ prev.time # NoTime
                     /\ clock - prev.time <= rvTTL
                     /\ ~evictedSince[rvType'][rvKey'])
                       => /\ cur.answer = prev.answer
                          /\ ~(cur.consulted /\ prev.consulted)]_vars

\* C39, corrected: a check answers from the cache when an unexpired entry
\* exists; otherwise the collaborator is asked and, unless the system-user
\* lookup timed out (answer false, cache untouched), its outcome is cached
\* with the current time; and a check made no more than the TTL after the
\* caching of the entry the previous check of that address produced or
\* used, with no eviction of its key in between, returns the same answer
\* without asking the collaborator.
ChecksAnswerFromFreshEntry ==
    [][/\ BeginsWithEntry =>
             /\ rvChecks' = rvChecks + 1
             /\ rvAnswer' = CacheOf(rvType').items[rvKey'].value
             /\ ~lastCheck'[rvType'][rvKey'].consulted
       /\ CheckReturns =>
             LET prev == lastCheck[rvType'][rvKey']
                 cur  == lastCheck'[rvType'][rvKey']
             IN  /\ cur.answer = rvAnswer'
                 /\ (cur.consulted /\ cur.stamp # NoTime) =>
                       /\ rvKey' \in DOMAIN CacheOfNext(rvType').items
                       /\ CacheOfNext(rvType').items[rvKey'] =
                             [value |-> cur.answer, timestamp |-> clock]
                 /\ (cur.consulted /\ cur.stamp = NoTime) =>
                       /\ rvType' = "local"
                       /\ ~cur.answer
                       /\ UNCHANGED << systemCache, virtualCache >>
                 /\ (/\ prev.time # NoTime
                     /\ prev.stamp # NoTime
                     /\ clock - prev.stamp <= rvTTL
                     /\ ~evictedSince[rvType'][rvKey'])
                       => /\ cur.answer = prev.answer
                          /\ ~cur.consulted]_vars

\* a negative outcome was cached and a later check of the same address, made
\* within the TTL, was answered false from the cache
WitnessChecksAnswerFromFreshEntry ==
    \E t \in CachedTypes, k \in RcptKeys :
       /\ rvPc = "idle"
       /\ rvChecks >= 2
       /\ rvType = t /\ rvKey = k
       /\ lastCheck[t][k].time # NoTime
       /\ ~lastCheck[t][k].consulted
       /\ ~lastCheck[t][k].answer
       /\ lastCheck[t][k].time > lastCheck[t][k].stamp

(***************************************************************************)
(* Sessions and the sweeper goroutines of their validator caches:          *)
(* NewSession builds a RcptValidator, whose two LRUCaches each start a     *)
(* cleanupRoutine; the session handler returns when the session ends.      *)
(* RcptValidator.Close, which would close stopCleanup and end the          *)
(* routines, has no caller in the server or the session.                   *)
(***************************************************************************)

\* no session yet
SweeperInit ==
    /\ sessions = [s \in SessionSlots |-> "none"]
    /\ sweeper = [s \in SessionSlots |-> [c \in CacheNames |-> "none"]]

\* NewSession -> NewRcptValidator -> NewLRUCache twice: each cache starts
\* its cleanupRoutine goroutine
NewSession(s) ==
    /\ sessions[s] = "none"
    /\ sessions' = [sessions EXCEPT ![s] = "open"]
    /\ sweeper' = [sweeper EXCEPT ![s] = [c \in CacheNames |-> "started"]]
    /\ UNCHANGED << queueVars, spool, smtpVars, ingestVars, deliveryVars,
                    cacheVars, backoffVars, connVars, validatorVars >>

\* cleanupRoutine creates its ticker and enters the loop
cleanupRoutine(s, c) ==
    /\ sweeper[s][c] = "started"
    /\ sweeper' = [sweeper EXCEPT ![s][c] = "waiting"]
    /\ UNCHANGED sessions
    /\ UNCHANGED << queueVars, spool, smtpVars, ingestVars, deliveryVars,
                    cacheVars, backoffVars, connVars, validatorVars >>

\* cleanupRoutine: the ticker fires, c.cleanup() begins
TickerFires(s, c) ==
    /\ sweeper[s][c] = "waiting"
    /\ sweeper' = [sweeper EXCEPT ![s][c] = "cleanup"]
    /\ UNCHANGED sessions
    /\ UNCHANGED << queueVars, spool, smtpVars, ingestVars, deliveryVars,
                    cacheVars, backoffVars, connVars, validatorVars >>

\* cleanupRoutine: c.cleanup() returns, back to the select
CleanupReturns(s, c) ==
    /\ sweeper[s][c] = "cleanup"
    /\ sweeper' = [sweeper EXCEPT ![s][c] = "waiting"]
    /\ UNCHANGED sessions
    /\ UNCHANGED << queueVars, spool, smtpVars, ingestVars, deliveryVars,
                    cacheVars, backoffVars, connVars, validatorVars >>

\* the session handler returns (QUIT, a read error or a cancelled context):
\* the deferred textproto.Close runs; nothing touches the validator
SessionEnds(s) ==
    /\ sessions[s] = "open"
    /\ sessions' = [sessions EXCEPT ![s] = "ended"]
    /\ UNCHANGED sweeper
    /\ UNCHANGED << queueVars, spool, smtpVars, ingestVars, deliveryVars,
                    cacheVars, backoffVars, connVars, validatorVars >>

SweeperNext ==
    \/ \E s \in SessionSlots : NewSession(s)
    \/ \E s \in SessionSlots, c \in CacheNames : cleanupRoutine(s, c)
    \/ \E s \in SessionSlots, c \in CacheNames : TickerFires(s, c)
    \/ \E s \in SessionSlots, c \in CacheNames : CleanupReturns(s, c)
    \/ \E s \in SessionSlots : SessionEnds(s)

SweeperSpecInit ==
    QueueInit /\ SessionIdle /\ IngestIdle /\ DeliveryIdle /\ CacheIdle
        /\ BackoffIdle /\ ServerIdle /\ ValidatorIdle /\ SweeperInit

SweeperSpec == SweeperSpecInit /\ [][SweeperNext]_vars

(* ---------------- properties of the sweepers ---------------- *)

\* the cleanupRoutine goroutines that have not returned
LiveSweepers ==
    {<< s, c >> \in SessionSlots \X CacheNames :
        sweeper[s][c] \in {"started", "waiting", "cleanup"}}

OpenSessions == {s \in SessionSlots : sessions[s] = "open"}

\* C40: the sweepers of a session that has ended have stopped, so there are
\* never more than two live sweepers per open session.
SweepersStopWithSession ==
    /\ \A s \in SessionSlots :
          sessions[s] = "ended" => \A c \in CacheNames : << s, c >> \notin LiveSweepers
    /\ Cardinality(LiveSweepers) <= 2 * Cardinality(OpenSessions)

====
